---- MODULE Spec2Model ----
(***************************************************************************)
(* Contract Guardian: the ReAct agent loop of agent/orchestrator.py with   *)
(* its collaborators (agent/pdf_processor.py, agent/mcp_tools.py), the    *)
(* law retriever (mcp_servers/law_retriever/laws_retriever_server.py) and  *)
(* the clause classifier (mcp_servers/clause_classifier/classifier.py).    *)
(*                                                                         *)
(* Text is modelled as a sequence of tokens.  A token is a word of prose,  *)
(* a brace, or one whole JSON member ("tool=consultar_ley" stands for      *)
(* `"tool": "consultar_ley"` together with its separator).  A document is  *)
(* modelled by its number of characters.                                   *)
(***************************************************************************)
EXTENDS Integers, Sequences, FiniteSets, TLC

VARIABLES
    sess,   \* session id -> the frame of one analyze_contract_streaming generator
    llm,    \* the reasoning-service stub: the fragments it may stream
    srv,    \* the law retriever server process: its directory, LAWS, last lookup
    clf     \* the clause classifier: the call under way, its input and its results

vars == <<sess, llm, srv, clf>>

(***************************************************************************)
(* Bounds of the model.                                                    *)
(***************************************************************************)
\* chunks with content one session may receive from the reasoning service
MaxChunks == 3
\* longest response text (in tokens) the parser is checked on
MaxLen == 6

(***************************************************************************)
(* Program constants.                                                      *)
(***************************************************************************)
MaxTurns == 3
MinTextLen == 50
PreviewLen == 3000
SampleLen == 1000

Min(a, b) == IF a < b THEN a ELSE b

(***************************************************************************)
(* Python values and string primitives on token sequences.                 *)
(***************************************************************************)
None == "<None>"

\* str(v) inside an f-string
Str(v) == IF v = None THEN "None" ELSE v

\* text.find(tok): 0-based index of the first occurrence, -1 when absent
Find(text, tok) ==
    IF \E i \in 1..Len(text) : text[i] = tok
    THEN (CHOOSE i \in 1..Len(text) :
              text[i] = tok /\ \A j \in 1..(i - 1) : text[j] # tok) - 1
    ELSE -1

\* text.rfind(tok): 0-based index of the last occurrence, -1 when absent
RFind(text, tok) ==
    IF \E i \in 1..Len(text) : text[i] = tok
    THEN (CHOOSE i \in 1..Len(text) :
              text[i] = tok /\ \A j \in (i + 1)..Len(text) : text[j] # tok) - 1
    ELSE -1

\* text[start:end] for start, end >= 0
Slice(text, start, end) == SubSeq(text, start + 1, Min(end, Len(text)))

\* topic.strip().lower() on the argument strings of the model
StripLower(s) ==
    CASE s = "  " -> ""
      [] s = "Fianza" -> "fianza"
      [] OTHER -> s

(***************************************************************************)
(* json.loads on a token sequence: an object is "{", members, "}".         *)
(***************************************************************************)
\* the tokens that are one well-formed member, with their key and value
JsonMembers ==
    { [tok |-> "tool=consultar_ley",    key |-> "tool", val |-> "consultar_ley"],
      [tok |-> "tool=clasificar_texto", key |-> "tool", val |-> "clasificar_texto"],
      [tok |-> "tool=borrar",           key |-> "tool", val |-> "borrar"],
      [tok |-> "args=fianza",           key |-> "args", val |-> "fianza"],
      [tok |-> "args=  ",               key |-> "args", val |-> "  "] }

IsMember(tok) == \E m \in JsonMembers : m.tok = tok
MemberOf(tok) == CHOOSE m \in JsonMembers : m.tok = tok

PyNone == [kind |-> "None", items |-> <<>>]
PyRaise == [kind |-> "raise", items |-> <<>>]
PyDict(items) == [kind |-> "dict", items |-> items]

\* the dict of a member list: a repeated key keeps its last value
DictOf(members) ==
    LET keys == { MemberOf(members[i]).key : i \in 1..Len(members) }
        last(k) == CHOOSE i \in 1..Len(members) :
                       /\ MemberOf(members[i]).key = k
                       /\ \A j \in (i + 1)..Len(members) : MemberOf(members[j]).key # k
    IN  [k \in keys |-> MemberOf(members[last(k)]).val]

JsonLoads(json_str) ==
    LET n == Len(json_str) IN
    IF /\ n >= 2
       /\ json_str[1] = "{"
       /\ json_str[n] = "}"
       /\ \A i \in 2..(n - 1) : IsMember(json_str[i])
    THEN PyDict(DictOf(SubSeq(json_str, 2, n - 1)))
    ELSE PyRaise

\* bool(v) of a parsed value
Truthy(v) == v.kind = "dict" /\ DOMAIN v.items # {}

\* v.get(k)
Get(v, k) == IF k \in DOMAIN v.items THEN v.items[k] ELSE None

\* the body of the try block of _parse_tool_call
ParseBody(text) ==
    LET start == Find(text, "{")
        end == RFind(text, "}") + 1
    IN  IF start # -1 /\ end # -1
        THEN JsonLoads(Slice(text, start, end))
        ELSE PyNone

\* _parse_tool_call without its except clause
_parse_tool_call_no_except(text) == ParseBody(text)

_parse_tool_call(text) ==
    IF ParseBody(text).kind = "raise" THEN PyNone ELSE ParseBody(text)

(***************************************************************************)
(* PDFProcessor.extract_text.  A pdf is [exists, readable, chars]: whether *)
(* the path exists, whether pypdf can read it, and how many characters the *)
(* joined page texts have.                                                 *)
(***************************************************************************)
Returned(text) == [raised |-> FALSE, reason |-> "", text |-> text]
Raised(reason) == [raised |-> TRUE, reason |-> reason, text |-> -1]

extract_text(pdf) ==
    IF ~pdf.exists THEN Raised("FileNotFoundError: No se encuentra el PDF")
    ELSE IF ~pdf.readable THEN Raised("PdfReadError")
    ELSE IF pdf.chars < MinTextLen
         THEN Raised("ValueError: El PDF parece ser una imagen o estar vacio.")
    ELSE Returned(pdf.chars)

(***************************************************************************)
(* MCPToolsManager.  A payload is a JSON object: its keys in order, with   *)
(* the value of each.  An http outcome is what requests.post does: it      *)
(* raises (timeout, connection error) or returns a response, whose body    *)
(* response.json() can decode or not.                                      *)
(***************************************************************************)
Payload(keys, error, status, items) ==
    [keys |-> keys, error |-> error, status |-> status, items |-> items]

EmptyDict == Payload(<<>>, "", "", <<>>)

HttpOutcomes(list_key, ids) ==
    { [kind |-> "timeout", status_code |-> 0, json_ok |-> FALSE, body |-> EmptyDict],
      [kind |-> "connection_error", status_code |-> 0, json_ok |-> FALSE, body |-> EmptyDict],
      [kind |-> "response", status_code |-> 500, json_ok |-> FALSE, body |-> EmptyDict],
      [kind |-> "response", status_code |-> 200, json_ok |-> FALSE, body |-> EmptyDict],
      [kind |-> "response", status_code |-> 200, json_ok |-> TRUE,
       body |-> Payload(<<"status", list_key>>, "", "ok", ids)] }

\* the outcomes of POST http://localhost:8001/law_lookup
LawOutcomes == HttpOutcomes("results", <<"LAU-36">>)
\* the outcomes of POST http://localhost:8002/classify_clauses
ClassifierOutcomes == HttpOutcomes("clauses", <<"clause_1">>)

\* faulty variant of Posted: the error payloads lack the empty result list
Posted_no_list(http, list_key) ==
    IF http.kind # "response"
    THEN Payload(<<"error">>, http.kind, "", <<>>)
    ELSE IF http.status_code = 200
    THEN IF http.json_ok THEN http.body
         ELSE Payload(<<"error">>, "JSONDecodeError", "", <<>>)
    ELSE Payload(<<"error">>, "Status 500", "", <<>>)

\* what the try block makes of the outcome of requests.post
Posted(http, list_key) ==
    IF http.kind # "response"
    THEN Payload(<<"error", list_key>>, http.kind, "", <<>>)
    ELSE IF http.status_code = 200
    THEN IF http.json_ok THEN http.body
         ELSE Payload(<<"error", list_key>>, "JSONDecodeError", "", <<>>)
    ELSE Payload(<<"error", list_key>>, "Status 500", "", <<>>)

\* MCPToolsManager.classify_clauses: the payload it returns
classify_clauses(contract_text, http) == Posted(http, "clauses")

\* whether law_lookup reaches requests.post
LawLookupPosts(topic) == topic # None /\ StripLower(topic) # ""

\* MCPToolsManager.law_lookup: the payload it returns
law_lookup(topic, http) ==
    IF topic = None
    THEN Payload(<<"error", "results">>, "AttributeError", "", <<>>)
    ELSE IF StripLower(topic) = ""
    THEN EmptyDict
    ELSE Posted(http, "results")

RECURSIVE Flatten(_)
Flatten(seqs) == IF seqs = <<>> THEN <<>> ELSE Head(seqs) \o Flatten(Tail(seqs))

\* json.dumps(res, ensure_ascii=False) as tokens
Dumps(p) ==
    LET member(k) ==
            CASE k = "error" -> <<"error=", p.error>>
              [] k = "status" -> <<"status=", p.status>>
              [] OTHER -> <<k, "=[">> \o p.items \o <<"]">>
    IN  <<"{">> \o Flatten([i \in 1..Len(p.keys) |-> member(p.keys[i])]) \o <<"}">>

(***************************************************************************)
(* OrchestratorWithLLM._create_dummy_result                                *)
(***************************************************************************)
Contains(text, tok) == \E i \in 1..Len(text) : text[i] = tok

\* analysis.split(marker): the parts around the occurrences of marker
RECURSIVE Split(_, _)
Split(text, marker) ==
    IF ~Contains(text, marker) THEN <<text>>
    ELSE LET i == Find(text, marker) + 1
         IN  <<SubSeq(text, 1, i - 1)>> \o Split(SubSeq(text, i + 1, Len(text)), marker)

Lower(tok) ==
    CASE tok = "Ilegal" -> "ilegal"
      [] tok = "Revisar" -> "revisar"
      [] tok = "INFORME FINAL:" -> "informe final:"
      [] OTHER -> tok

keywords_high == {"ilegal", "fraude", "infracción", "abusiva", "grave"}
keywords_medium == {"incorrecto", "error", "revisar"}

\* sum(analysis_lower.count(w) for w in words)
CountWords(text, words) == Cardinality({ i \in 1..Len(text) : Lower(text[i]) \in words })

_create_dummy_result(text, analysis) ==
    LET byConclusion == Split(analysis, "Conclusión")
        byRecs == Split(analysis, "Recomendaciones")
        triggered == Contains(analysis, "Recomendación") \/ Contains(analysis, "Conclusión")
        reasoning ==
            IF triggered /\ Len(byConclusion) > 1 THEN byConclusion[1]
            ELSE IF triggered /\ Len(byRecs) > 1 THEN byRecs[1]
            ELSE analysis
        recommendations ==
            IF triggered /\ Len(byConclusion) > 1 THEN <<"Conclusión">> \o byConclusion[2]
            ELSE IF triggered /\ Len(byRecs) > 1 THEN <<"Recomendaciones">> \o byRecs[2]
            ELSE <<>>
        high_risk == Min(CountWords(analysis, keywords_high), 5)
        medium_risk == Min(CountWords(analysis, keywords_medium), 5)
    IN  [initial_analysis |-> <<"Análisis realizado mediante Agente ReAct con herramientas MCP.">>,
         llm_reasoning |-> reasoning,
         recommendations |-> IF recommendations # <<>> THEN recommendations
                             ELSE <<"Ver detalles en el razonamiento.">>,
         total_clauses |-> high_risk + medium_risk,
         high_risk_count |-> high_risk,
         medium_risk_count |-> medium_risk,
         low_risk_count |-> 0]

(***************************************************************************)
(* OrchestratorWithLLM.analyze_contract_streaming: one session is one      *)
(* generator frame.  pc is where the generator is suspended:               *)
(*   "start"       created, not yet resumed                                *)
(*   "extracting"  at the yield of line 36                                 *)
(*   "analyzing"   at the yield of line 66                                 *)
(*   "streaming"   inside the try block of lines 70-84                     *)
(*   "error"       at the yield of line 87                                 *)
(*   "mcp_calls"   at the yield of line 99                                 *)
(*   "mcp_done"    at the yield of line 110                                *)
(*   "complete"    at the yield of line 118                                *)
(*   "returned"    the generator is exhausted                              *)
(*   "raised"      an exception left the generator                         *)
(***************************************************************************)
Sessions == {1}

\* the documents a session may be given
Pdfs ==
    { [exists |-> FALSE, readable |-> FALSE, chars |-> 0],
      [exists |-> TRUE, readable |-> FALSE, chars |-> 0],
      [exists |-> TRUE, readable |-> TRUE, chars |-> 49],
      [exists |-> TRUE, readable |-> TRUE, chars |-> 50],
      [exists |-> TRUE, readable |-> TRUE, chars |-> 3001] }

\* the fragments the reasoning service streams in the sessions of Spec
Fragments ==
    { <<"w">>,
      <<"INFORME FINAL:">>,
      <<"{", "tool=consultar_ley", "args=fianza", "}">>,
      <<"{", "tool=clasificar_texto", "}">>,
      <<"{", "tool=borrar", "args=fianza", "}">>,
      <<"{", "tool=consultar_ley", "}">>,
      <<"{", "tool=consultar_ley", "args=  ", "}">>,
      <<"{", "args=fianza", "}">>,
      <<"{", "}">> }

NewSession(pdf) ==
    [pc |-> "start", pdf |-> pdf, contract_text |-> -1, messages |-> <<>>,
     turn |-> 0, response_full |-> <<>>, tool_call |-> PyNone,
     tool_result |-> <<>>, events |-> <<>>, exc |-> "",
     llm_requests |-> <<>>, mcp_requests |-> <<>>, chunks |-> 0]

Message(role, content) == [role |-> role, content |-> content]
Event(status, message) == [status |-> status, message |-> message]
Yield(f, pc, ev) == [f EXCEPT !.pc = pc, !.events = Append(@, ev)]

system_prompt == <<"Eres Contract Guardian, un auditor experto IA.">>

\* faulty variant of Prefix: the whole document goes into the seed
Prefix_whole(contract_text, n) == contract_text

\* contract_text[:n], a text being its number of characters
Prefix(contract_text, n) == Min(contract_text, n)

\* faulty variant of LoopHead: the loop has no turn ceiling
LoopHead_unbounded(f) ==
    Yield(f, "analyzing",
          Event("analyzing",
                <<"El Agente está pensando (Paso", ToString(f.turn + 1), ")...">>))

\* the head of `for turn in range(3)`: the next turn starts or the loop is over
LoopHead(f) ==
    IF f.turn < MaxTurns
    THEN Yield(f, "analyzing",
               Event("analyzing",
                     <<"El Agente está pensando (Paso", ToString(f.turn + 1), ")...">>))
    ELSE [f EXCEPT !.pc = "returned"]

\* lines 36: the first resumption yields the extracting event
Started(f) == Yield(f, "extracting", Event("extracting", <<"Leyendo documento...">>))

\* lines 37-66: extract the text, seed the history, enter the loop
Extracted(f) ==
    LET r == extract_text(f.pdf) IN
    IF r.raised
    THEN [f EXCEPT !.pc = "raised", !.exc = r.reason]
    ELSE LoopHead([f EXCEPT
             !.contract_text = r.text,
             !.messages =
                 << Message("system", system_prompt),
                    Message("user", <<"Analiza este documento y detecta infracciones:",
                                      ToString(Prefix(r.text, PreviewLen)), "...">>) >>])

\* faulty variant of Invoked: the history is one list kept on the shared
\* instance, so every call passes the history of the first session that has one
Invoked_shared(f) ==
    LET seeded == { t \in DOMAIN sess : sess[t].messages # <<>> }
        first  == CHOOSE t \in seeded : \A u \in seeded : t <= u
    IN  [f EXCEPT !.pc = "streaming", !.response_full = <<>>,
                  !.llm_requests = Append(@, sess[first].messages)]

\* lines 69-77: the reasoning service is called with the history
Invoked(f) ==
    [f EXCEPT !.pc = "streaming", !.response_full = <<>>,
              !.llm_requests = Append(@, f.messages)]

\* faulty variant of Chunked: the fragment replaces the accumulated response
Chunked_overwrite(f, content) ==
    Yield([f EXCEPT !.response_full = content, !.chunks = @ + 1],
          "streaming", [status |-> "analyzing_chunk", chunk |-> content])

\* lines 79-84: one chunk with content arrives
Chunked(f, content) ==
    Yield([f EXCEPT !.response_full = @ \o content, !.chunks = @ + 1],
          "streaming", [status |-> "analyzing_chunk", chunk |-> content])

\* lines 86-88: the call or the stream raised
Failed(f, e) == Yield(f, "error", Event("error", <<e>>))

\* the terminal marker of the system prompt, compared case-insensitively
HasMarker(text) == \E i \in 1..Len(text) : Lower(text[i]) = "informe final:"

\* variant of Decided that completes only on the terminal marker: a response
\* with no tool call and no marker becomes an assistant turn and the loop goes on
Decided_marker(f) ==
    LET tool_call == _parse_tool_call(f.response_full) IN
    IF Truthy(tool_call)
    THEN Yield([f EXCEPT !.tool_call = tool_call], "mcp_calls",
               Event("mcp_calls",
                     <<"Ejecutando herramienta:", Str(Get(tool_call, "tool")), "...">>))
    ELSE IF HasMarker(f.response_full)
    THEN Yield([f EXCEPT !.tool_call = tool_call], "complete",
               [status |-> "complete",
                result |-> _create_dummy_result(f.contract_text, f.response_full)])
    ELSE LoopHead([f EXCEPT !.tool_call = tool_call, !.turn = @ + 1,
                            !.messages = Append(@, Message("assistant", f.response_full))])

\* lines 93-99 and 116-121: the stream is over, a tool is requested or not
Decided(f) ==
    LET tool_call == _parse_tool_call(f.response_full) IN
    IF tool_call.kind = "raise"
    THEN [f EXCEPT !.pc = "raised", !.exc = "JSONDecodeError"]
    ELSE IF Truthy(tool_call)
    THEN Yield([f EXCEPT !.tool_call = tool_call], "mcp_calls",
               Event("mcp_calls",
                     <<"Ejecutando herramienta:", Str(Get(tool_call, "tool")), "...">>))
    ELSE Yield([f EXCEPT !.tool_call = tool_call], "complete",
               [status |-> "complete",
                result |-> _create_dummy_result(f.contract_text, f.response_full)])

\* whether the dispatch of the requested tool reaches requests.post
DispatchPosts(f) ==
    \/ Get(f.tool_call, "tool") = "clasificar_texto"
    \/ Get(f.tool_call, "tool") = "consultar_ley" /\ LawLookupPosts(Get(f.tool_call, "args"))

\* the requests.post a dispatch makes, if any, with its outcome
Requests(f, http) ==
    LET tool_name == Get(f.tool_call, "tool")
        tool_args == Get(f.tool_call, "args")
    IN  IF tool_name = "consultar_ley" /\ LawLookupPosts(tool_args)
        THEN <<[url |-> "http://localhost:8001/law_lookup",
                json |-> StripLower(tool_args), outcome |-> http]>>
        ELSE IF tool_name = "clasificar_texto"
        THEN <<[url |-> "http://localhost:8002/classify_clauses",
                json |-> ToString(Prefix(f.contract_text, SampleLen)), outcome |-> http]>>
        ELSE <<>>

\* lines 102-108: the tool result of the requested tool
ToolResult(f, http) ==
    LET tool_name == Get(f.tool_call, "tool")
        tool_args == Get(f.tool_call, "args")
    IN  IF tool_name = "consultar_ley"
        THEN Dumps(law_lookup(tool_args, http))
        ELSE IF tool_name = "clasificar_texto"
        THEN Dumps(classify_clauses(Prefix(f.contract_text, SampleLen), http))
        ELSE <<>>

\* lines 101-110: run the tool, yield mcp_done
Dispatched(f, http) ==
    Yield([f EXCEPT !.tool_result = ToolResult(f, http),
                    !.mcp_requests = @ \o Requests(f, http)],
          "mcp_done", Event("mcp_done", <<"Datos obtenidos.">>))

\* faulty variant of ToolTurnEntries: the tool result precedes the response
ToolTurnEntries_swapped(f) ==
    << Message("user", <<"RESULTADO DE HERRAMIENTA (", Str(Get(f.tool_call, "tool")), "):">>
                       \o f.tool_result \o <<". Continúa tu análisis.">>),
       Message("assistant", f.response_full) >>

\* lines 113-114: the two entries a tool turn appends
ToolTurnEntries(f) ==
    << Message("assistant", f.response_full),
       Message("user", <<"RESULTADO DE HERRAMIENTA (", Str(Get(f.tool_call, "tool")), "):">>
                       \o f.tool_result \o <<". Continúa tu análisis.">>) >>

\* faulty variant of Appended: a turn budget that runs out forces a complete event
Appended_finalize(f) ==
    LET g == [f EXCEPT !.messages = @ \o ToolTurnEntries(f), !.turn = @ + 1] IN
    IF g.turn < MaxTurns
    THEN LoopHead(g)
    ELSE Yield(g, "complete",
               [status |-> "complete",
                result |-> _create_dummy_result(g.contract_text, g.response_full)])

\* lines 112-114, then the loop head
Appended(f) ==
    LoopHead([f EXCEPT !.messages = @ \o ToolTurnEntries(f), !.turn = @ + 1])

\* faulty variant of ErrorReturned: no return, the turn goes on to its decision
ErrorReturned_fallthrough(f) == Decided(f)

\* line 88: return after the error event
ErrorReturned(f) == [f EXCEPT !.pc = "returned"]

\* faulty variant of Broken: no break, the loop goes on to the next turn
Broken_no_break(f) == LoopHead([f EXCEPT !.turn = @ + 1])

\* line 122: break after the complete event
Broken(f) == [f EXCEPT !.pc = "returned"]

(***************************************************************************)
(* The law retriever server (laws_retriever_server.py). Its strings are    *)
(* sequences of one-character strings, so that strip, lower, split, join   *)
(* and the substring test `in` are computed as Python computes them. JSON  *)
(* objects are functions from their keys; the values of the model's JSON   *)
(* documents are strings, lists of strings and lists of objects.           *)
(***************************************************************************)
Whitespace == {" ", "\t", "\n"}

UpperCase == <<"A", "B", "C", "D", "E", "F", "G", "H", "I", "J", "K", "L", "M",
               "N", "O", "P", "Q", "R", "S", "T", "U", "V", "W", "X", "Y", "Z">>

LowerCase == <<"a", "b", "c", "d", "e", "f", "g", "h", "i", "j", "k", "l", "m",
               "n", "o", "p", "q", "r", "s", "t", "u", "v", "w", "x", "y", "z">>

\* the character of `to` at the place the character holds in `from`
Recase(c, from, to) ==
    IF \E i \in 1..Len(from) : from[i] = c
    THEN to[CHOOSE i \in 1..Len(from) : from[i] = c]
    ELSE c

\* str.lower() and str.upper()
str_lower(s) == [i \in 1..Len(s) |-> Recase(s[i], UpperCase, LowerCase)]

str_upper(s) == [i \in 1..Len(s) |-> Recase(s[i], LowerCase, UpperCase)]

\* str.strip()
str_strip(s) ==
    LET ink == { i \in 1..Len(s) : s[i] \notin Whitespace } IN
    IF ink = {} THEN <<>>
    ELSE SubSeq(s, CHOOSE i \in ink : \A j \in ink : i <= j,
                   CHOOSE i \in ink : \A j \in ink : j <= i)

\* str.split(): the maximal runs of non-whitespace characters
RECURSIVE str_split(_)
str_split(s) ==
    LET t == str_strip(s)
        gaps == { i \in 1..Len(t) : t[i] \in Whitespace }
    IN  IF t = <<>> THEN <<>>
        ELSE IF gaps = {} THEN <<t>>
        ELSE LET g == CHOOSE i \in gaps : \A j \in gaps : i <= j
             IN  <<SubSeq(t, 1, g - 1)>> \o str_split(SubSeq(t, g + 1, Len(t)))

\* ' '.join(words)
RECURSIVE str_join(_)
str_join(words) ==
    IF words = <<>> THEN <<>>
    ELSE IF Len(words) = 1 THEN words[1]
    ELSE words[1] \o <<" ">> \o str_join(Tail(words))

\* token in text
str_in(token, text) ==
    \/ token = <<>>
    \/ \E i \in 0..(Len(text) - Len(token)) :
           text[i + 1] = token[1] /\ SubSeq(text, i + 1, i + Len(token)) = token

\* dict.get(key, default)
dict_get(d, key, default) == IF key \in DOMAIN d THEN d[key] ELSE default

\* the dict with d[key] = value
dict_set(d, key, value) ==
    [k \in DOMAIN d \cup {key} |-> IF k = key THEN value ELSE d[k]]

(***************************************************************************)
(* validate_law_article and load_laws_from_directory                       *)
(***************************************************************************)
required_fields == {"id", "title", "text"}

\* a parsed JSON value that is not an object carries its JSON type
JsonValue(type, value) == [json |-> type, value |-> value]

isinstance_dict(x) == "json" \notin DOMAIN x

\* faulty variant of validate_law_article: only the presence of the fields is checked
validate_law_article_keys(article) ==
    /\ isinstance_dict(article)
    /\ required_fields \subseteq DOMAIN article

\* lines 39-70
validate_law_article(article) ==
    /\ isinstance_dict(article)
    /\ required_fields \subseteq DOMAIN article
    /\ \A field \in required_fields :
           article[field] # <<>> /\ str_strip(article[field]) # <<>>

\* lines 113-166: the articles one file contributes
LoadedFrom(filepath) ==
    LET data == filepath.data
        stem == str_upper(filepath.stem)
    IN  IF filepath.st_size = 0 THEN <<>>
        ELSE IF ~isinstance_dict(data)
        THEN IF data.json = "list"
             THEN LET valid == SelectSeq(data.value, validate_law_article) IN
                  [i \in 1..Len(valid) |->
                      IF "domain" \in DOMAIN valid[i] THEN valid[i]
                      ELSE dict_set(valid[i], "domain", stem)]
             ELSE <<>>
        ELSE IF "articles" \in DOMAIN data
        THEN LET domain == dict_get(data, "domain", stem)
                 valid == SelectSeq(data.articles, validate_law_article)
             IN  [i \in 1..Len(valid) |-> dict_set(valid[i], "domain", domain)]
        ELSE IF validate_law_article(data)
        THEN IF "domain" \in DOMAIN data THEN <<data>>
             ELSE <<dict_set(data, "domain", stem)>>
        ELSE <<>>

\* lines 73-172
load_laws_from_directory(laws_dir) ==
    IF ~laws_dir.exists THEN <<>>
    ELSE Flatten([i \in 1..Len(laws_dir.json_files) |-> LoadedFrom(laws_dir.json_files[i])])

(***************************************************************************)
(* law_lookup of the server                                                *)
(***************************************************************************)
MinTokenLen == 3
TitleBonus == 2
TopK == 5

\* lines 260-264
query_tokens(topic) ==
    LET long == SelectSeq(str_split(topic), LAMBDA word : Len(word) > MinTokenLen) IN
    IF long = <<>> THEN <<topic>> ELSE long

\* lines 270-275
full_content(entry) ==
    str_lower(dict_get(entry, "title", <<>>)) \o <<" ">>
        \o str_lower(dict_get(entry, "text", <<>>)) \o <<" ">>
        \o str_join([i \in 1..Len(dict_get(entry, "keywords", <<>>)) |->
                        str_lower(entry.keywords[i])]) \o <<" ">>
        \o str_lower(dict_get(entry, "notes", <<>>))

\* faulty variant of Scored: any number of matching tokens counts as one
Scored_any(entry, tokens) ==
    LET title   == str_lower(dict_get(entry, "title", <<>>))
        matches == SelectSeq(tokens, LAMBDA token : str_in(token, full_content(entry)))
        score   == IF matches = <<>> THEN 0 ELSE 1
    IN  [law |-> entry, matches |-> matches,
         score |-> IF score > 0 /\ \E i \in 1..Len(tokens) : str_in(tokens[i], title)
                   THEN score + TitleBonus ELSE score]

\* faulty variant of Scored: no bonus for a token in the title
Scored_no_bonus(entry, tokens) ==
    LET matches == SelectSeq(tokens, LAMBDA token : str_in(token, full_content(entry))) IN
    [law |-> entry, matches |-> matches, score |-> Len(matches)]

\* lines 277-296: the score of one entry
Scored(entry, tokens) ==
    LET title   == str_lower(dict_get(entry, "title", <<>>))
        matches == SelectSeq(tokens, LAMBDA token : str_in(token, full_content(entry)))
        score   == Len(matches)
    IN  [law |-> entry, matches |-> matches,
         score |-> IF score > 0 /\ \E i \in 1..Len(tokens) : str_in(tokens[i], title)
                   THEN score + TitleBonus ELSE score]

\* faulty variant of InsertByScore: the item goes before the items of its own score
InsertByScore_before(sorted, item) ==
    LET k == Cardinality({ i \in 1..Len(sorted) : sorted[i].score > item.score }) IN
    SubSeq(sorted, 1, k) \o <<item>> \o SubSeq(sorted, k + 1, Len(sorted))

\* the item inserted into a list sorted by decreasing score, after the items
\* of its own score
InsertByScore(sorted, item) ==
    LET k == Cardinality({ i \in 1..Len(sorted) : sorted[i].score >= item.score }) IN
    SubSeq(sorted, 1, k) \o <<item>> \o SubSeq(sorted, k + 1, Len(sorted))

\* line 299: list.sort(key=score, reverse=True), a stable sort
RECURSIVE SortByScore(_)
SortByScore(items) ==
    IF items = <<>> THEN <<>>
    ELSE InsertByScore(SortByScore(SubSeq(items, 1, Len(items) - 1)), items[Len(items)])

\* lines 266-299: the scored results at the return
scored_results(topic, LAWS) ==
    LET all == [i \in 1..Len(LAWS) |-> Scored(LAWS[i], query_tokens(topic))] IN
    SortByScore(SelectSeq(all, LAMBDA item : item.score > 0))

\* line 311: final_results[:5]
Results(final_results) == SubSeq(final_results, 1, Min(TopK, Len(final_results)))

\* line 249: str(params.get("topic", "")).strip().lower()
TopicOf(params) == str_lower(str_strip(dict_get(params, "topic", <<>>)))

\* lines 241-312
tool_law_lookup(params, LAWS) ==
    LET topic == TopicOf(params)
        scored == scored_results(topic, LAWS)
        final_results == [i \in 1..Len(scored) |-> scored[i].law]
    IN  IF topic = <<>>
        THEN [status |-> "error", message |-> "Topic parameter is required",
              results |-> <<>>]
        ELSE [status |-> "ok", query |-> topic, tokens_used |-> query_tokens(topic),
              total_results |-> Len(final_results), results |-> Results(final_results)]

(***************************************************************************)
(* The laws directories and the lookup payloads of the model               *)
(***************************************************************************)
MaxLaws == 6
MaxFiles == 2

T_fianza_arr == <<"F", "i", "a", "n", "z", "a", " ", "e", "n", " ", "a", "r", "r", "e", "n", "d", "a", "m", "i", "e", "n", "t", "o", "s">>
T_duracion == <<"D", "u", "r", "a", "c", "i", "o", "n">>
T_obras == <<"O", "b", "r", "a", "s">>
T_renta == <<"R", "e", "n", "t", "a">>

\* the i-th article of a collection, of one of three kinds
LawKinds == 1..3

Article(kind, i) ==
    LET id == <<"L", ToString(i)>> IN
    CASE kind = 1 -> [id |-> id, title |-> T_fianza_arr, text |-> <<"d", "e", "l", " ", "a", "l", "q", "u", "i", "l", "e", "r">>]
      [] kind = 2 -> [id |-> id, title |-> T_duracion, text |-> <<"l", "a", " ", "f", "i", "a", "n", "z", "a">>,
                      keywords |-> <<<<"P", "l", "a", "z", "o">>, <<"p", "a", "g", "o">>>>, notes |-> <<"v", "e", "r", " ", "a", "l", "q", "u", "i", "l", "e", "r">>]
      [] OTHER    -> [id |-> id, title |-> T_obras, text |-> <<"a", "l", "q", "u", "i", "l", "e", "r", " ", "y", " ", "p", "l", "a", "z", "o">>]

JsonFile(stem, st_size, data) == [stem |-> stem, st_size |-> st_size, data |-> data]

\* a laws directory whose one file is the list of the given kinds of articles
CollectionDir(kinds) ==
    [exists |-> TRUE,
     json_files |-> << JsonFile(<<"l", "a", "u">>, 1,
                                JsonValue("list", [i \in 1..Len(kinds) |-> Article(kinds[i], i)])) >>]

\* the contents of the files of the other directories: articles that lack a
\* required field or have it empty or blank, between articles that are valid;
\* f is the place of the file in the directory
FileContents(f) ==
    LET id(n)  == <<"A", ToString(f), ToString(n)>>
        ok(n)  == [id |-> id(n), title |-> T_obras, text |-> <<"a", "l", "q", "u", "i", "l", "e", "r">>]
        own(n) == [id |-> id(n), title |-> T_renta, text |-> <<"p", "a", "g", "o">>, domain |-> <<"C", "C">>]
    IN  << JsonValue("list", << ok(1),
                                [id |-> id(2), text |-> <<"a", "l", "q", "u", "i", "l", "e", "r">>],
                                [id |-> id(3), title |-> T_obras, text |-> <<" ", "\t">>],
                                own(4) >>),
           [domain |-> <<"L", "A", "U">>,
            articles |-> << [id |-> <<>>, title |-> T_obras, text |-> <<"a", "l", "q", "u", "i", "l", "e", "r">>], ok(5) >>],
           [articles |-> << ok(6), JsonValue("string", <<"x">>),
                            [id |-> <<" ">>, title |-> T_obras, text |-> <<"a", "l", "q", "u", "i", "l", "e", "r">>], own(7) >>],
           [id |-> id(8), title |-> T_duracion, text |-> <<"l", "a", " ", "f", "i", "a", "n", "z", "a">>],
           [id |-> id(9), title |-> T_duracion, text |-> <<>>],
           JsonValue("invalid", <<>>),
           JsonValue("number", <<"7">>) >>

NumContents == Len(FileContents(1))

\* the file of the given contents at the i-th place of the sorted directory;
\* contents 0 is the file of size 0
FileAt(i, c) ==
    IF c = 0 THEN JsonFile(<<"f", ToString(i)>>, 0, JsonValue("invalid", <<>>))
    ELSE JsonFile(<<"f", ToString(i)>>, 1, FileContents(i)[c])

LawsDirs ==
    { [exists |-> FALSE, json_files |-> <<>>] }
        \cup { CollectionDir(kinds) : kinds \in UNION { [1..n -> LawKinds] : n \in 0..MaxLaws } }
        \cup { [exists |-> TRUE, json_files |-> [i \in 1..Len(cs) |-> FileAt(i, cs[i])]] :
                   cs \in UNION { [1..n -> 0..NumContents] : n \in 0..MaxFiles } }

Payloads ==
    { <<>>,
      [topic |-> <<>>],
      [topic |-> <<" ", "\t", " ">>],
      [topic |-> <<"f", "i", "a", "n", "z", "a", " ", "a", "l", "q", "u", "i", "l", "e", "r">>],
      [topic |-> <<" ", "L", "a", " ", "F", "i", "a", "n", "z", "a", " ", " ", "A", "l", "q", "u", "i", "l", "e", "r", " ", "P", "l", "a", "z", "o", " ">>],
      [topic |-> <<"a", "l", "q", "u", "i", "l", "e", "r">>],
      [topic |-> <<"s", "e", "g", "u", "r", "o">>],
      [topic |-> <<"e", "n">>] }

(***************************************************************************)
(* The clause classifier (mcp_servers/clause_classifier/classifier.py).    *)
(* Clause texts are sequences of one-character strings, as on the law      *)
(* retriever. The strings the classifier only hands out (type names, risk  *)
(* levels, recommendations, legal issues, law ids) are whole strings. The  *)
(* clause texts of the model have no upper-case accented letters, so       *)
(* str_lower lowers them as str.lower() does.                              *)
(***************************************************************************)
\* the members of ClauseType, by their names; those of RiskLevel are "HIGH",
\* "MEDIUM" and "LOW"
ClauseType ==
    <<"TERMINATION", "LIABILITY", "PRIVACY", "PAYMENT", "MODIFICATION",
      "ARBITRATION", "DURATION", "RESTRICTIONS", "INTELLECTUAL_PROPERTY", "OTHER">>

\* CLAUSE_PATTERNS in the order of the dict literal, which is the order in
\* which detect_clause_type scores the types
CLAUSE_PATTERNS ==
    << [type |-> "TERMINATION",
        keywords |->
            << <<"r", "e", "s", "c", "i", "s", "i", "ó", "n">>,
               <<"t", "e", "r", "m", "i", "n", "a", "c", "i", "ó", "n">>,
               <<"d", "e", "s", "p", "i", "d", "o">>,
               <<"c", "a", "n", "c", "e", "l", "a", "c", "i", "ó", "n">>,
               <<"r", "e", "s", "o", "l", "u", "c", "i", "ó", "n">>,
               <<"v", "e", "n", "c", "i", "m", "i", "e", "n", "t", "o">>,
               <<"f", "i", "n", "a", "l", "i", "z", "a", "c", "i", "ó", "n">>,
               <<"c", "e", "s", "e">>,
               <<"e", "x", "t", "i", "n", "c", "i", "ó", "n">>,
               <<"r", "u", "p", "t", "u", "r", "a">>,
               <<"f", "i", "n", " ", "d", "e", "l", " ", "c", "o", "n", "t", "r", "a", "t", "o">>,
               <<"c", "o", "n", "c", "l", "u", "s", "i", "ó", "n">>,
               <<"t", "é", "r", "m", "i", "n", "o">> >>,
        red_flags |->
            << <<"s", "i", "n", " ", "c", "a", "u", "s", "a">>,
               <<"s", "i", "n", " ", "p", "r", "e", "v", "i", "o", " ", "a", "v", "i", "s", "o">>,
               <<"u", "n", "i", "l", "a", "t", "e", "r", "a", "l">>,
               <<"a", " ", "v", "o", "l", "u", "n", "t", "a", "d">>,
               <<"i", "n", "m", "e", "d", "i", "a", "t", "a", "m", "e", "n", "t", "e">>,
               <<"d", "i", "s", "c", "r", "e", "c", "i", "o", "n", "a", "l">>,
               <<"a", "r", "b", "i", "t", "r", "a", "r", "i", "a">>,
               <<"s", "i", "n", " ", "m", "o", "t", "i", "v", "o">> >>],
       [type |-> "LIABILITY",
        keywords |->
            << <<"r", "e", "s", "p", "o", "n", "s", "a", "b", "i", "l", "i", "d", "a", "d">>,
               <<"l", "i", "m", "i", "t", "a", "c", "i", "ó", "n">>,
               <<"i", "n", "d", "e", "m", "n", "i", "z", "a", "c", "i", "ó", "n">>,
               <<"d", "a", "ñ", "o", "s">>,
               <<"r", "e", "c", "l", "a", "m", "a", "c", "i", "ó", "n">>,
               <<"g", "a", "r", "a", "n", "t", "í", "a">>,
               <<"n", "e", "g", "l", "i", "g", "e", "n", "c", "i", "a">>,
               <<"i", "n", "c", "u", "m", "p", "l", "i", "m", "i", "e", "n", "t", "o">>,
               <<"r", "e", "p", "a", "r", "a", "c", "i", "ó", "n">>,
               <<"c", "o", "m", "p", "e", "n", "s", "a", "c", "i", "ó", "n">> >>,
        red_flags |->
            << <<"s", "i", "n", " ", "r", "e", "s", "p", "o", "n", "s", "a", "b", "i", "l", "i", "d", "a", "d">>,
               <<"s", "i", "n", " ", "g", "a", "r", "a", "n", "t", "í", "a">>,
               <<"s", "e", " ", "p", "r", "o", "p", "o", "r", "c", "i", "o", "n", "a", " ", "t", "a", "l", " ", "c", "u", "a", "l">>,
               <<"l", "i", "m", "i", "t", "a", "c", "i", "ó", "n", " ", "d", "e", " ", "r", "e", "s", "p", "o", "n", "s", "a", "b", "i", "l", "i", "d", "a", "d">>,
               <<"e", "x", "e", "n", "c", "i", "ó", "n", " ", "d", "e", " ", "r", "e", "s", "p", "o", "n", "s", "a", "b", "i", "l", "i", "d", "a", "d">>,
               <<"r", "e", "n", "u", "n", "c", "i", "a", " ", "d", "e", " ", "d", "e", "r", "e", "c", "h", "o", "s">>,
               <<"s", "i", "n", " ", "c", "o", "m", "p", "e", "n", "s", "a", "c", "i", "ó", "n">> >>],
       [type |-> "PRIVACY",
        keywords |->
            << <<"d", "a", "t", "o", "s", " ", "p", "e", "r", "s", "o", "n", "a", "l", "e", "s">>,
               <<"p", "r", "i", "v", "a", "c", "i", "d", "a", "d">>,
               <<"c", "o", "n", "f", "i", "d", "e", "n", "c", "i", "a", "l", "i", "d", "a", "d">>,
               <<"i", "n", "f", "o", "r", "m", "a", "c", "i", "ó", "n">>,
               <<"r", "g", "p", "d">>,
               <<"p", "r", "o", "t", "e", "c", "c", "i", "ó", "n", " ", "d", "e", " ", "d", "a", "t", "o", "s">>,
               <<"c", "o", "n", "s", "e", "n", "t", "i", "m", "i", "e", "n", "t", "o">>,
               <<"t", "r", "a", "t", "a", "m", "i", "e", "n", "t", "o">>,
               <<"p", "r", "o", "c", "e", "s", "a", "m", "i", "e", "n", "t", "o">>,
               <<"a", "c", "c", "e", "s", "o">>,
               <<"p", "o", "r", "t", "a", "b", "i", "l", "i", "d", "a", "d">> >>,
        red_flags |->
            << <<"v", "e", "n", "t", "a", " ", "d", "e", " ", "d", "a", "t", "o", "s">>,
               <<"d", "a", "t", "o", "s", " ", "p", "e", "r", "p", "e", "t", "u", "o", "s">>,
               <<"s", "i", "n", " ", "c", "o", "n", "s", "e", "n", "t", "i", "m", "i", "e", "n", "t", "o">>,
               <<"c", "o", "m", "p", "a", "r", "t", "i", "r", " ", "c", "o", "n", " ", "t", "e", "r", "c", "e", "r", "o", "s">>,
               <<"s", "i", "n", " ", "d", "e", "r", "e", "c", "h", "o", " ", "a", " ", "e", "l", "i", "m", "i", "n", "a", "r">>,
               <<"v", "i", "g", "i", "l", "a", "n", "c", "i", "a">>,
               <<"s", "e", "g", "u", "i", "m", "i", "e", "n", "t", "o", " ", "i", "n", "d", "e", "f", "i", "n", "i", "d", "o">> >>],
       [type |-> "PAYMENT",
        keywords |->
            << <<"s", "a", "l", "a", "r", "i", "o">>,
               <<"p", "a", "g", "o">>,
               <<"p", "r", "e", "c", "i", "o">>,
               <<"t", "a", "r", "i", "f", "a">>,
               <<"c", "o", "m", "p", "e", "n", "s", "a", "c", "i", "ó", "n">>,
               <<"h", "o", "n", "o", "r", "a", "r", "i", "o", "s">>,
               <<"r", "e", "n", "t", "a">>,
               <<"c", "u", "o", "t", "a">>,
               <<"a", "r", "a", "n", "c", "e", "l">>,
               <<"r", "e", "m", "u", "n", "e", "r", "a", "c", "i", "ó", "n">>,
               <<"s", "u", "e", "l", "d", "o">>,
               <<"h", "o", "r", "a", "s">> >>,
        red_flags |->
            << <<"s", "i", "n", " ", "p", "a", "g", "o">>,
               <<"r", "e", "d", "u", "c", "c", "i", "ó", "n", " ", "u", "n", "i", "l", "a", "t", "e", "r", "a", "l">>,
               <<"p", "e", "n", "a", "l", "i", "z", "a", "c", "i", "ó", "n">>,
               <<"d", "e", "u", "d", "a", " ", "p", "e", "r", "p", "e", "t", "u", "a">>,
               <<"c", "a", "m", "b", "i", "o", " ", "s", "i", "n", " ", "n", "o", "t", "i", "f", "i", "c", "a", "c", "i", "ó", "n">>,
               <<"a", "u", "m", "e", "n", "t", "o", " ", "i", "l", "i", "m", "i", "t", "a", "d", "o">>,
               <<"i", "n", "d", "e", "x", "a", "d", "o", " ", "i", "n", "f", "i", "n", "i", "t", "o">>,
               <<"s", "i", "n", " ", "c", "o", "m", "p", "e", "n", "s", "a", "c", "i", "ó", "n">> >>],
       [type |-> "MODIFICATION",
        keywords |->
            << <<"m", "o", "d", "i", "f", "i", "c", "a", "c", "i", "ó", "n">>,
               <<"c", "a", "m", "b", "i", "o">>,
               <<"e", "n", "m", "i", "e", "n", "d", "a">>,
               <<"a", "c", "t", "u", "a", "l", "i", "z", "a", "c", "i", "ó", "n">>,
               <<"r", "e", "v", "i", "s", "i", "ó", "n">>,
               <<"v", "a", "r", "i", "a", "c", "i", "ó", "n">>,
               <<"a", "j", "u", "s", "t", "e">>,
               <<"a", "l", "t", "e", "r", "a", "c", "i", "ó", "n">>,
               <<"t", "r", "a", "n", "s", "f", "o", "r", "m", "a", "c", "i", "ó", "n">> >>,
        red_flags |->
            << <<"c", "a", "m", "b", "i", "o", " ", "u", "n", "i", "l", "a", "t", "e", "r", "a", "l">>,
               <<"s", "i", "n", " ", "c", "o", "n", "s", "e", "n", "t", "i", "m", "i", "e", "n", "t", "o">>,
               <<"s", "i", "n", " ", "n", "o", "t", "i", "f", "i", "c", "a", "c", "i", "ó", "n">>,
               <<"a", " ", "d", "i", "s", "c", "r", "e", "c", "i", "ó", "n">>,
               <<"a", "r", "b", "i", "t", "r", "a", "r", "i", "o">>,
               <<"s", "i", "n", " ", "l", "í", "m", "i", "t", "e">>,
               <<"p", "e", "r", "m", "a", "n", "e", "n", "t", "e">> >>],
       [type |-> "ARBITRATION",
        keywords |->
            << <<"a", "r", "b", "i", "t", "r", "a", "j", "e">>,
               <<"m", "e", "d", "i", "a", "c", "i", "ó", "n">>,
               <<"r", "e", "s", "o", "l", "u", "c", "i", "ó", "n", " ", "d", "e", " ", "d", "i", "s", "p", "u", "t", "a", "s">>,
               <<"t", "r", "i", "b", "u", "n", "a", "l">>,
               <<"l", "i", "t", "i", "g", "i", "o">>,
               <<"r", "e", "c", "l", "a", "m", "a", "c", "i", "ó", "n">>,
               <<"j", "u", "r", "i", "s", "d", "i", "c", "c", "i", "ó", "n">>,
               <<"c", "o", "m", "p", "e", "t", "e", "n", "c", "i", "a">>,
               <<"l", "e", "y", " ", "a", "p", "l", "i", "c", "a", "b", "l", "e">>,
               <<"f", "o", "r", "o">> >>,
        red_flags |->
            << <<"a", "r", "b", "i", "t", "r", "a", "j", "e", " ", "o", "b", "l", "i", "g", "a", "t", "o", "r", "i", "o">>,
               <<"s", "i", "n", " ", "d", "e", "r", "e", "c", "h", "o", " ", "a", " ", "j", "u", "z", "g", "a", "d", "o">>,
               <<"c", "o", "s", "t", "o", "s", " ", "a", "r", "b", "i", "t", "r", "a", "j", "e">>,
               <<"j", "u", "r", "i", "s", "d", "i", "c", "c", "i", "ó", "n", " ", "e", "x", "t", "r", "a", "n", "j", "e", "r", "a">>,
               <<"l", "e", "y", " ", "e", "x", "t", "r", "a", "n", "j", "e", "r", "a", " ", "a", "p", "l", "i", "c", "a", "b", "l", "e">>,
               <<"i", "m", "p", "o", "s", "i", "b", "l", "e", " ", "i", "m", "p", "u", "g", "n", "a", "r">>,
               <<"s", "i", "n", " ", "a", "p", "e", "l", "a", "c", "i", "ó", "n">> >>],
       [type |-> "DURATION",
        keywords |->
            << <<"d", "u", "r", "a", "c", "i", "ó", "n">>,
               <<"p", "l", "a", "z", "o">>,
               <<"t", "é", "r", "m", "i", "n", "o">>,
               <<"v", "i", "g", "e", "n", "c", "i", "a">>,
               <<"v", "a", "l", "i", "d", "e", "z">>,
               <<"p", "e", "r", "í", "o", "d", "o">>,
               <<"a", "ñ", "o", "s">>,
               <<"m", "e", "s", "e", "s">>,
               <<"s", "e", "m", "a", "n", "a", "s">>,
               <<"d", "í", "a", "s">>,
               <<"t", "i", "e", "m", "p", "o">>,
               <<"r", "e", "n", "o", "v", "a", "c", "i", "ó", "n">>,
               <<"p", "r", "ó", "r", "r", "o", "g", "a">> >>,
        red_flags |->
            << <<"i", "n", "d", "e", "f", "i", "n", "i", "d", "o">>,
               <<"p", "e", "r", "p", "e", "t", "u", "o">>,
               <<"r", "e", "n", "o", "v", "a", "c", "i", "ó", "n", " ", "a", "u", "t", "o", "m", "á", "t", "i", "c", "a", " ", "s", "i", "n", " ", "s", "a", "l", "i", "d", "a">>,
               <<"d", "u", "r", "a", "c", "i", "ó", "n", " ", "i", "l", "i", "m", "i", "t", "a", "d", "a">>,
               <<"s", "i", "n", " ", "f", "e", "c", "h", "a", " ", "d", "e", " ", "f", "i", "n", "a", "l", "i", "z", "a", "c", "i", "ó", "n">> >>],
       [type |-> "RESTRICTIONS",
        keywords |->
            << <<"p", "r", "o", "h", "i", "b", "i", "c", "i", "ó", "n">>,
               <<"r", "e", "s", "t", "r", "i", "c", "c", "i", "ó", "n">>,
               <<"l", "i", "m", "i", "t", "a", "c", "i", "ó", "n">>,
               <<"e", "x", "c", "l", "u", "s", "i", "ó", "n">>,
               <<"c", "o", "n", "s", "e", "n", "t", "i", "m", "i", "e", "n", "t", "o", " ", "r", "e", "q", "u", "e", "r", "i", "d", "o">>,
               <<"c", "o", "m", "p", "e", "t", "e", "n", "c", "i", "a">>,
               <<"n", "o", " ", "c", "o", "m", "p", "e", "t", "e">>,
               <<"c", "o", "n", "f", "i", "d", "e", "n", "c", "i", "a", "l", "i", "d", "a", "d">> >>,
        red_flags |->
            << <<"r", "e", "s", "t", "r", "i", "c", "c", "i", "ó", "n", " ", "p", "e", "r", "p", "e", "t", "u", "a">>,
               <<"r", "e", "s", "t", "r", "i", "c", "c", "i", "ó", "n", " ", "m", "u", "n", "d", "i", "a", "l">>,
               <<"r", "e", "s", "t", "r", "i", "c", "c", "i", "ó", "n", " ", "t", "o", "t", "a", "l">>,
               <<"s", "i", "n", " ", "e", "x", "c", "e", "p", "c", "i", "o", "n", "e", "s">>,
               <<"i", "r", "r", "e", "v", "o", "c", "a", "b", "l", "e">>,
               <<"i", "n", "m", "o", "d", "i", "f", "i", "c", "a", "b", "l", "e">> >>] >>

high_risk_terms ==
    << <<"s", "i", "n", " ", "c", "a", "u", "s", "a">>,
       <<"s", "i", "n", " ", "p", "r", "e", "v", "i", "o", " ", "a", "v", "i", "s", "o">>,
       <<"u", "n", "i", "l", "a", "t", "e", "r", "a", "l">>,
       <<"a", " ", "d", "i", "s", "c", "r", "e", "c", "i", "ó", "n">>,
       <<"s", "i", "n", " ", "r", "e", "s", "p", "o", "n", "s", "a", "b", "i", "l", "i", "d", "a", "d">>,
       <<"s", "i", "n", " ", "g", "a", "r", "a", "n", "t", "í", "a">>,
       <<"s", "i", "n", " ", "c", "o", "n", "s", "e", "n", "t", "i", "m", "i", "e", "n", "t", "o">>,
       <<"p", "e", "r", "p", "e", "t", "u", "o">>,
       <<"i", "n", "d", "e", "f", "i", "n", "i", "d", "o">>,
       <<"i", "r", "r", "e", "v", "o", "c", "a", "b", "l", "e">>,
       <<"i", "n", "m", "o", "d", "i", "f", "i", "c", "a", "b", "l", "e">>,
       <<"s", "e", " ", "p", "r", "o", "p", "o", "r", "c", "i", "o", "n", "a", " ", "t", "a", "l", " ", "c", "u", "a", "l">>,
       <<"r", "e", "n", "u", "n", "c", "i", "a", " ", "d", "e", " ", "d", "e", "r", "e", "c", "h", "o", "s">>,
       <<"r", "e", "n", "u", "n", "c", "i", "a", " ", "a">>,
       <<"s", "i", "n", " ", "c", "o", "m", "p", "e", "n", "s", "a", "c", "i", "ó", "n">>,
       <<"i", "n", "m", "e", "d", "i", "a", "t", "a", "m", "e", "n", "t", "e">>,
       <<"d", "i", "s", "c", "r", "e", "c", "i", "o", "n", "a", "l">>,
       <<"a", "r", "b", "i", "t", "r", "a", "r", "i", "a">>,
       <<"e", "x", "e", "n", "c", "i", "ó", "n">>,
       <<"l", "i", "m", "i", "t", "a", "c", "i", "ó", "n", " ", "d", "e", " ", "r", "e", "s", "p", "o", "n", "s", "a", "b", "i", "l", "i", "d", "a", "d">> >>

medium_risk_terms ==
    << <<"m", "o", "d", "i", "f", "i", "c", "a", "c", "i", "ó", "n">>,
       <<"c", "a", "m", "b", "i", "o">>,
       <<"a", "r", "b", "i", "t", "r", "a", "j", "e">>,
       <<"l", "i", "m", "i", "t", "a", "c", "i", "ó", "n">>,
       <<"p", "e", "n", "a", "l", "i", "z", "a", "c", "i", "ó", "n">>,
       <<"a", "c", "t", "u", "a", "l", "i", "z", "a", "c", "i", "ó", "n">>,
       <<"r", "e", "v", "i", "s", "i", "ó", "n">> >>

stop_words ==
    { <<"e", "l">>,
      <<"l", "a">>,
      <<"d", "e">>,
      <<"y">>,
      <<"a">>,
      <<"e", "n">>,
      <<"d", "e", "l">>,
      <<"q", "u", "e">>,
      <<"p", "o", "r">>,
      <<"e", "s">>,
      <<"s", "e">>,
      <<"l", "o", "s">>,
      <<"l", "a", "s">>,
      <<"a", "l">>,
      <<"u", "n", "a">>,
      <<"u", "n">>,
      <<"e", "s", "t", "e">>,
      <<"e", "s", "t", "a">>,
      <<"s", "e", "r", "á">>,
      <<"p", "u", "e", "d", "e">>,
      <<"d", "e", "b", "e">>,
      <<"p", "u", "e", "d", "e", "n">>,
      <<"d", "e", "b", "e", "n">>,
      <<"s", "o", "n">>,
      <<"e", "s", "t", "á">>,
      <<"h", "a", "n">>,
      <<"s", "e", "a">>,
      <<"s", "i", "n">>,
      <<"c", "o", "n">>,
      <<"p", "a", "r", "a">>,
      <<"c", "o", "m", "o">>,
      <<"m", "á", "s">> }

APPLICABLE_LAWS ==
    [t \in {"TERMINATION", "LIABILITY", "PRIVACY", "PAYMENT", "MODIFICATION",
            "ARBITRATION", "DURATION", "RESTRICTIONS"} |->
        CASE t = "TERMINATION" -> <<"LAB_9", "LAB_14", "LAR_9">>
          [] t = "LIABILITY" -> <<"TOS_4", "TOS_8", "TOS_10">>
          [] t = "PRIVACY" -> <<"TOS_6", "TOS_7">>
          [] t = "PAYMENT" -> <<"LAB_7", "LAB_4", "LAR_6">>
          [] t = "MODIFICATION" -> <<"TOS_12">>
          [] t = "ARBITRATION" -> <<"TOS_13", "TOS_14">>
          [] t = "DURATION" -> <<"LAB_6", "LAR_3">>
          [] t = "RESTRICTIONS" -> <<"LAB_8">>]

(***************************************************************************)
(* Regular expressions of the classifier, on the characters of the model.  *)
(***************************************************************************)
Digits == {"0", "1", "2", "3", "4", "5", "6", "7", "8", "9"}

\* the class [a-záéíóúñ], in code point order
LetterOrder == LowerCase \o <<"á", "é", "í", "ñ", "ó", "ú">>

\* the class \w
WordChars ==
    { LetterOrder[i] : i \in 1..Len(LetterOrder) }
    \cup { UpperCase[i] : i \in 1..Len(UpperCase) } \cup Digits \cup {"_"}

\* the maximal runs of \w characters of s, in order: a match of \b...\b
\* starts where such a run starts and ends where it ends
RECURSIVE re_words(_)
re_words(s) ==
    LET inside == { i \in 1..Len(s) : s[i] \in WordChars } IN
    IF inside = {} THEN <<>>
    ELSE LET a == CHOOSE i \in inside : \A j \in inside : i <= j
             b == CHOOSE i \in a..Len(s) :
                      /\ \A j \in a..i : s[j] \in WordChars
                      /\ (i = Len(s) \/ s[i + 1] \notin WordChars)
         IN  <<SubSeq(s, a, b)>> \o re_words(SubSeq(s, b + 1, Len(s)))

\* w is made of characters of the class [a-záéíóúñ]
all_letters(w) ==
    \A i \in 1..Len(w) : \E k \in 1..Len(LetterOrder) : LetterOrder[k] = w[i]

\* the suffixes of r'\b[a-záéíóúñ]+(?:ción|dad|miento)\b'
complex_suffixes ==
    { <<"c", "i", "ó", "n">>, <<"d", "a", "d">>, <<"m", "i", "e", "n", "t", "o">> }

\* len(re.findall(r'\b[a-záéíóúñ]+(?:ción|dad|miento)\b', text_lower))
complex_terms(text_lower) ==
    LET words == re_words(text_lower) IN
    Cardinality({ i \in 1..Len(words) :
                    /\ all_letters(words[i])
                    /\ \E suffix \in complex_suffixes :
                           /\ Len(words[i]) > Len(suffix)
                           /\ SubSeq(words[i], Len(words[i]) - Len(suffix) + 1,
                                     Len(words[i])) = suffix })

(***************************************************************************)
(* detect_clause_type                                                      *)
(***************************************************************************)
\* the score of one entry of CLAUSE_PATTERNS: 1 per keyword, 2 per red flag
pattern_score(text_lower, patterns) ==
    Cardinality({ i \in 1..Len(patterns.keywords) : str_in(patterns.keywords[i], text_lower) })
    + 2 * Cardinality({ i \in 1..Len(patterns.red_flags) : str_in(patterns.red_flags[i], text_lower) })

\* faulty variant of dict_max: among equal scores the last key wins
dict_max_last(keys, score) ==
    CHOOSE i \in keys : \A j \in keys : score[j] < score[i] \/ (score[j] = score[i] /\ j <= i)

\* max(scores, key=scores.get): the first key, in insertion order, of the
\* highest score
dict_max(keys, score) ==
    CHOOSE i \in keys : \A j \in keys : score[j] < score[i] \/ (score[j] = score[i] /\ i <= j)

detect_clause_type(clause_text) ==
    LET text_lower == str_lower(clause_text)
        score == [i \in 1..Len(CLAUSE_PATTERNS) |-> pattern_score(text_lower, CLAUSE_PATTERNS[i])]
        scores == { i \in 1..Len(CLAUSE_PATTERNS) : score[i] > 0 }
    IN  IF scores = {}
        THEN [clause_type |-> "OTHER", confidence |-> <<0, 5>>]
        ELSE LET best_type == dict_max(scores, score) IN
             [clause_type |-> CLAUSE_PATTERNS[best_type].type,
              confidence |-> <<Min(score[best_type], 5), 5>>]

(***************************************************************************)
(* calculate_risk_level                                                    *)
(***************************************************************************)
\* the terms of a list that are in the text
terms_in(terms, text_lower) == { i \in 1..Len(terms) : str_in(terms[i], text_lower) }

\* lines 277-310: the running score before the floor and the clamp
risk_points(clause_text) ==
    LET text_lower == str_lower(clause_text) IN
      30 * Cardinality(terms_in(high_risk_terms, text_lower))
    + 15 * Cardinality(terms_in(medium_risk_terms, text_lower))
    + (IF Len(clause_text) > 500 THEN 20 ELSE 0)
    + Min(complex_terms(text_lower) * 3, 30)

\* faulty variant of risk_floor: the floor replaces every score of the two types
risk_floor_always(risk_score, clause_type) ==
    IF clause_type \in {"TERMINATION", "LIABILITY"} THEN 20 ELSE risk_score

\* lines 313-314
risk_floor(risk_score, clause_type) ==
    IF risk_score < 10 /\ clause_type \in {"TERMINATION", "LIABILITY"} THEN 20 ELSE risk_score

\* faulty variant of risk_clamp: the score is not clamped
risk_clamp_none(risk_score) == risk_score

\* line 317
risk_clamp(risk_score) == Min(risk_score, 100)

\* faulty variant of risk_level_of: a score of 50 is not yet high
risk_level_of_above(risk_score) ==
    IF risk_score > 50 THEN "HIGH"
    ELSE IF risk_score >= 25 THEN "MEDIUM"
    ELSE "LOW"

\* lines 320-325
risk_level_of(risk_score) ==
    IF risk_score >= 50 THEN "HIGH"
    ELSE IF risk_score >= 25 THEN "MEDIUM"
    ELSE "LOW"

calculate_risk_level(clause_text, clause_type) ==
    LET risk_score == risk_clamp(risk_floor(risk_points(clause_text), clause_type)) IN
    [risk_level |-> risk_level_of(risk_score), risk_score |-> risk_score]

(***************************************************************************)
(* extract_key_terms                                                       *)
(***************************************************************************)
\* a < b for two strings of letters, letter by letter in code point order
str_lt(a, b) ==
    LET letter_rank(c) == CHOOSE i \in 1..Len(LetterOrder) : LetterOrder[i] = c IN
    \E i \in 1..(Len(b)) :
        /\ \A j \in 1..(i - 1) : j <= Len(a) /\ a[j] = b[j]
        /\ (i > Len(a) \/ letter_rank(a[i]) < letter_rank(b[i]))

\* sorted(words) for a collection of distinct strings of letters
RECURSIVE sorted(_)
sorted(words) ==
    IF words = {} THEN <<>>
    ELSE LET first == CHOOSE w \in words : \A v \in words \ {w} : str_lt(w, v)
         IN  <<first>> \o sorted(words \ {first})

\* set(w for w in words if w not in stop_words), words being the matches of
\* r'\b[a-záéíóúñ]{4,}\b' in the lower-cased text
significant_words(clause_text) ==
    LET words == re_words(str_lower(clause_text)) IN
    { words[i] : i \in { j \in 1..Len(words) :
                           /\ all_letters(words[j])
                           /\ Len(words[j]) >= 4
                           /\ words[j] \notin stop_words } }

\* the lists extract_key_terms may return: list(set(...)) has the order of the
\* set's hash table, which string hash randomisation changes from one process
\* to the next, so [:5] keeps any 5 of the words; sorted() orders what is kept
extract_key_terms(clause_text) ==
    LET words == significant_words(clause_text)
        kept == IF Cardinality(words) < 5 THEN Cardinality(words) ELSE 5
    IN  { sorted(key_terms) : key_terms \in { s \in SUBSET words : Cardinality(s) = kept } }

(***************************************************************************)
(* _generate_legal_issue, _generate_recommendations, classify_clause       *)
(***************************************************************************)
_generate_legal_issue(clause_type, risk_level) ==
    LET issues(high, medium, low) ==
            CASE risk_level = "HIGH" -> high
              [] risk_level = "MEDIUM" -> medium
              [] OTHER -> low
    IN  CASE clause_type = "TERMINATION" ->
                 issues("Rescisión unilateral sin causa y sin previo aviso - VIOLACIÓN de derechos laborales",
                        "Terminación con condiciones no estándar",
                        "Procedimiento de terminación claro")
          [] clause_type = "LIABILITY" ->
                 issues("Limitación de responsabilidad indebida o injusta - ABUSIVA",
                        "Limitación de responsabilidad moderada",
                        "Limitación de responsabilidad razonable")
          [] clause_type = "PRIVACY" ->
                 issues("Recopilación indefinida de datos sin consentimiento - VIOLACIÓN RGPD",
                        "Tratamiento de datos con limitaciones",
                        "Protección de datos conforme a RGPD")
          [] clause_type = "PAYMENT" ->
                 issues("Cambio unilateral de precios o reducción sin causa",
                        "Actualización de precios periódica",
                        "Precios fijos durante el contrato")
          [] clause_type = "MODIFICATION" ->
                 issues("Modificación unilateral sin consentimiento - ABUSIVA",
                        "Modificación con previo aviso",
                        "Modificación por acuerdo mutuo")
          [] clause_type = "ARBITRATION" ->
                 issues("Arbitraje obligatorio sin derecho a tribunal - LIMITACIÓN DE DERECHOS",
                        "Mediación como primer paso",
                        "Resolución alternativa de disputas")
          [] clause_type = "DURATION" ->
                 issues("Duración indefinida o perpetua - SIN SALIDA",
                        "Renovación automática con salida",
                        "Duración definida con opción de renovación")
          [] clause_type = "RESTRICTIONS" ->
                 issues("Restricción perpetua e ilimitada - ABUSIVA",
                        "Restricción temporal o limitada",
                        "Restricción razonable y limitada")
          [] OTHER -> "Problema legal desconocido"

\* the strings are those of the source without the pictograph that opens each
_generate_recommendations(clause_type, risk_level) ==
    LET by_level ==
            CASE risk_level = "HIGH" ->
                     <<"CRÍTICO: REVISAR CON ABOGADO - Riesgos significativos",
                       "NO FIRMES sin negociar esta cláusula",
                       "Solicita cambios ANTES de firmar">>
              [] risk_level = "MEDIUM" ->
                     <<"REVISAR: Asegúrate de entender esta cláusula",
                       "Considera solicitar cambios en los términos">>
              [] OTHER ->
                     <<"Esta cláusula parece razonable",
                       "Pero aún debes revisar según tu contexto">>
        by_type ==
            CASE clause_type = "TERMINATION" ->
                     <<"Exige que se especifiquen los motivos válidos de terminación">>
              [] clause_type = "LIABILITY" ->
                     <<"Verifica cobertura completa de daños y responsabilidades">>
              [] clause_type = "PRIVACY" ->
                     <<"Exige derechos de acceso, rectificación y eliminación de datos">>
              [] clause_type = "MODIFICATION" ->
                     <<"Requiere TU consentimiento para cambios importantes">>
              [] OTHER -> <<>>
        recommendations == by_level \o by_type
    IN  SubSeq(recommendations, 1, Min(Len(recommendations), 3))

\* the ClassifiedClause objects classify_clause may return
classify_clause(clause_text, clause_id) ==
    LET detected == detect_clause_type(clause_text)
        risk == calculate_risk_level(clause_text, detected.clause_type)
    IN  { [id |-> clause_id,
           clause_text |-> SubSeq(clause_text, 1, Min(Len(clause_text), 200)),
           clause_type |-> detected.clause_type,
           risk_level |-> risk.risk_level,
           risk_score |-> risk.risk_score,
           legal_issue |-> _generate_legal_issue(detected.clause_type, risk.risk_level),
           applicable_laws |-> dict_get(APPLICABLE_LAWS, detected.clause_type, <<>>),
           recommendations |-> _generate_recommendations(detected.clause_type, risk.risk_level),
           key_terms |-> key_terms] : key_terms \in extract_key_terms(clause_text) }

(***************************************************************************)
(* split_clauses                                                           *)
(***************************************************************************)
\* the first place from i on whose character is not in the class
skip(s, i, class) ==
    CHOOSE k \in i..(Len(s) + 1) :
        /\ \A j \in i..(k - 1) : s[j] \in class
        /\ (k = Len(s) + 1 \/ s[k] \notin class)

\* r'^\s*(\d+)[\.\-]\s+' matched at p under re.MULTILINE: the place after the
\* match, 0 without one
numbered_end(s, p) ==
    LET digits == skip(s, p, Whitespace)
        mark == skip(s, digits, Digits)
    IN  IF /\ (p = 1 \/ s[p - 1] = "\n")
           /\ mark > digits
           /\ mark <= Len(s)
           /\ s[mark] \in {".", "-"}
           /\ skip(s, mark + 1, Whitespace) > mark + 1
        THEN skip(s, mark + 1, Whitespace)
        ELSE 0

\* r'(?<=[.!?])\s+(?=[A-Z])' matched at p: the place after the match, 0 without one
sentence_end(s, p) ==
    LET capital == skip(s, p, Whitespace) IN
    IF /\ p > 1
       /\ s[p - 1] \in {".", "!", "?"}
       /\ capital > p
       /\ capital <= Len(s)
       /\ \E i \in 1..Len(UpperCase) : UpperCase[i] = s[capital]
    THEN capital
    ELSE 0

\* sep matched at p: the place after the match, 0 without one
separator_end(s, p, sep) ==
    IF p + Len(sep) - 1 <= Len(s) /\ SubSeq(s, p, p + Len(sep) - 1) = sep
    THEN p + Len(sep)
    ELSE 0

\* the successive matches from `from` on, leftmost first and not overlapping;
\* match_end[p] is the place after the match at p, 0 without one
RECURSIVE re_matches(_, _)
re_matches(match_end, from) ==
    LET starts == { p \in DOMAIN match_end : p >= from /\ match_end[p] > 0 } IN
    IF starts = {} THEN <<>>
    ELSE LET p == CHOOSE q \in starts : \A r \in starts : q <= r
         IN  <<[start |-> p, end |-> match_end[p]]>> \o re_matches(match_end, match_end[p])

\* the text before, between and after the matches
re_split(s, matches) ==
    [k \in 1..(Len(matches) + 1) |->
        SubSeq(s, IF k = 1 THEN 1 ELSE matches[k - 1].end,
                  IF k > Len(matches) THEN Len(s) ELSE matches[k].start - 1)]

\* lines 186-214: the candidates of the first strategy whose trigger holds
clause_candidates(contract_text) ==
    LET text == str_strip(contract_text)
        numbered == re_matches([p \in 1..Len(text) |-> numbered_end(text, p)], 1)
        paragraphs == re_matches([p \in 1..Len(text) |-> separator_end(text, p, <<"\n", "\n">>)], 1)
        sentences == re_matches([p \in 1..Len(text) |-> sentence_end(text, p)], 1)
        lines == re_matches([p \in 1..Len(text) |-> separator_end(text, p, <<"\n">>)], 1)
        stripped(parts) == [k \in 1..Len(parts) |-> str_strip(parts[k])]
        long(clause_text) == Len(clause_text) > 10
    IN  IF numbered # <<>>
        THEN SelectSeq(stripped(Tail(re_split(text, numbered))), long)
        ELSE IF paragraphs # <<>>
        THEN stripped(re_split(text, paragraphs))
        ELSE IF sentences # <<>>
        THEN re_split(text, sentences)
        ELSE re_split(text, lines)

\* lines 217-223: the candidates are trimmed and the short ones dropped
split_clauses(contract_text) ==
    LET clauses == clause_candidates(contract_text)
        kept(c) == Len(c) > 15
    IN  SelectSeq([k \in 1..Len(clauses) |-> str_strip(clauses[k])], kept)

\* the classifier before a call of `op` on `input`; op is "idle" where the
\* classifier is not called
NewClassifier(op, input) == [op |-> op, input |-> input, output |-> <<>>, revised |-> <<>>]

(***************************************************************************)
(* The server process: the import of the module loads LAWS, then the       *)
(* endpoint answers lookups.                                               *)
(***************************************************************************)
NewServer(laws_dir) ==
    [phase |-> "import", laws_dir |-> laws_dir, LAWS |-> <<>>, lookup |-> <<>>]

\* lines 178-185: LAWS = load_laws_from_directory(laws_dir)
LoadLaws ==
    /\ srv.phase = "import"
    /\ srv' = [srv EXCEPT !.phase = "serving",
                          !.LAWS = load_laws_from_directory(srv.laws_dir)]
    /\ UNCHANGED <<sess, llm, clf>>

\* lines 352-377: POST /law_lookup. LAWS is never written after the import,
\* so each server is followed up to its first lookup.
HttpLawLookup ==
    /\ srv.phase = "serving"
    /\ srv.lookup = <<>>
    /\ \E payload \in Payloads :
           srv' = [srv EXCEPT !.lookup =
                       << [params |-> payload,
                           scored_results |-> IF TopicOf(payload) = <<>> THEN <<>>
                                              ELSE scored_results(TopicOf(payload), srv.LAWS),
                           response |-> tool_law_lookup(payload, srv.LAWS)] >>]
    /\ UNCHANGED <<sess, llm, clf>>

InitLaws ==
    /\ srv \in { NewServer(laws_dir) : laws_dir \in LawsDirs }
    /\ sess = <<>>
    /\ llm = {}
    /\ clf = NewClassifier("idle", <<>>)

NextLaws == LoadLaws \/ HttpLawLookup

SpecLaws == InitLaws /\ [][NextLaws]_vars


(***************************************************************************)
(* The classifier at work: one call of classify_clause on a clause text,   *)
(* then one on the same text with one more high-risk phrase; or one call   *)
(* of split_clauses on a contract text.                                    *)
(***************************************************************************)
\* phrases a clause text of the model holds at most
MaxPhrases == 3
\* segments a contract text of the model holds at most
MaxSegments == 2

\* the phrases clause texts are made of, and a sentence
Phrase ==
    [rescision |->
         <<"r", "e", "s", "c", "i", "s", "i", "ó", "n">>,
     sin_causa |->
         <<"S", "i", "n", " ", "c", "a", "u", "s", "a">>,
     limitacion |->
         <<"l", "i", "m", "i", "t", "a", "c", "i", "ó", "n", " ", "d", "e", " ", "r", "e", "s", "p", "o", "n", "s", "a", "b", "i", "l", "i", "d", "a", "d">>,
     termino |->
         <<"t", "é", "r", "m", "i", "n", "o">>,
     perpetuo |->
         <<"p", "e", "r", "p", "e", "t", "u", "o">>]

Sentence ==
    <<"e", "l", " ", "i", "n", "q", "u", "i", "l", "i", "n", "o", " ", "a", "c", "e", "p", "t", "a", " ", "p", "a", "g", "a", "r", " ", "l", "a", " ", "r", "e", "n", "t", "a", " ", "m", "e", "n", "s", "u", "a", "l">>

Phrases == { Phrase[k] : k \in DOMAIN Phrase }

\* the high-risk phrases added to a classified text
AddedPhrases == {str_lower(Phrase.sin_causa), Phrase.perpetuo}

\* padding without letters: with it a clause text is about 500 characters long
Filler == [i \in 1..491 |-> "0"]

\* the clause texts: up to MaxPhrases phrases, a phrase after the padding, and
\* sentences of five, six and seven distinct words of four letters or more
ClauseTexts ==
    { str_join(ps) : ps \in UNION { [1..n -> Phrases] : n \in 0..MaxPhrases } }
    \cup { Filler \o <<" ">> \o p : p \in Phrases }
    \cup { Sentence, str_join(<<Sentence, Phrase.termino>>),
           str_join(<<Sentence, Phrase.limitacion>>) }

\* the contract texts of n segments: segments of 14, 15 and 16 characters,
\* between them what one of the four strategies splits on
RECURSIVE ContractsOf(_)
ContractsOf(n) ==
    LET Segments == { [i \in 1..k |-> IF i = 1 THEN "A" ELSE "a"] : k \in 14..16 }
        Separators == { <<"\n">>, <<"\n", "\n">>, <<".", " ">>, <<"\n", "2", ".", " ">> }
    IN  IF n = 1 THEN Segments
        ELSE { c \o sep \o seg : c \in ContractsOf(n - 1), sep \in Separators, seg \in Segments }

\* with and without a number before the first segment
Contracts ==
    { prefix \o c : prefix \in { <<>>, <<"1", ".", " ">> },
                    c \in UNION { ContractsOf(n) : n \in 1..MaxSegments } }

\* classify_clause(clause_text, "clause_1")
ClassifyClause ==
    /\ clf.op = "classify_clause"
    /\ clf.output = <<>>
    /\ \E c \in classify_clause(clf.input, "clause_1") :
           clf' = [clf EXCEPT !.output = <<c>>]
    /\ UNCHANGED <<sess, llm, srv>>

\* classify_clause on the text with one more occurrence of a high-risk phrase
ClassifyRevised ==
    /\ clf.op = "classify_clause"
    /\ clf.output # <<>>
    /\ clf.revised = <<>>
    /\ \E phrase \in AddedPhrases :
           \E c \in classify_clause(clf.input \o <<" ">> \o phrase, "clause_1") :
               clf' = [clf EXCEPT !.revised = <<[phrase |-> phrase, clause |-> c]>>]
    /\ UNCHANGED <<sess, llm, srv>>

\* split_clauses(contract_text)
SplitClauses ==
    /\ clf.op = "split_clauses"
    /\ clf.output = <<>>
    /\ clf' = [clf EXCEPT !.output = <<split_clauses(clf.input)>>]
    /\ UNCHANGED <<sess, llm, srv>>

InitClassifier ==
    /\ clf \in { NewClassifier("classify_clause", t) : t \in ClauseTexts }
               \cup { NewClassifier("split_clauses", c) : c \in Contracts }
    /\ sess = <<>>
    /\ llm = {}
    /\ srv = NewServer([exists |-> FALSE, json_files |-> <<>>])

NextClassifier == ClassifyClause \/ ClassifyRevised \/ SplitClauses

SpecClassifier == InitClassifier /\ [][NextClassifier]_vars

(***************************************************************************)
(* The actions: each resumes one session up to its next suspension.        *)
(***************************************************************************)
Resume(s, f) == sess' = [sess EXCEPT ![s] = f] /\ UNCHANGED <<llm, srv, clf>>

Start(s) == sess[s].pc = "start" /\ Resume(s, Started(sess[s]))

Extract(s) == sess[s].pc = "extracting" /\ Resume(s, Extracted(sess[s]))

Invoke(s) == sess[s].pc = "analyzing" /\ Resume(s, Invoked(sess[s]))

StreamChunk(s) ==
    /\ sess[s].pc = "streaming"
    /\ sess[s].chunks < MaxChunks
    /\ \E content \in llm : Resume(s, Chunked(sess[s], content))

StreamFail(s) ==
    /\ sess[s].pc = "streaming"
    /\ \E e \in {"APIConnectionError", "APIStatusError"} : Resume(s, Failed(sess[s], e))

StreamEnd(s) == sess[s].pc = "streaming" /\ Resume(s, Decided(sess[s]))

Dispatch(s) ==
    /\ sess[s].pc = "mcp_calls"
    /\ \E http \in (IF Get(sess[s].tool_call, "tool") = "clasificar_texto"
                    THEN ClassifierOutcomes ELSE LawOutcomes) :
           Resume(s, Dispatched(sess[s], http))

AppendResult(s) == sess[s].pc = "mcp_done" /\ Resume(s, Appended(sess[s]))

FinishError(s) == sess[s].pc = "error" /\ Resume(s, ErrorReturned(sess[s]))

FinishComplete(s) == sess[s].pc = "complete" /\ Resume(s, Broken(sess[s]))

Init ==
    /\ sess \in [Sessions -> { NewSession(pdf) : pdf \in Pdfs }]
    /\ llm = Fragments
    /\ srv = NewServer([exists |-> FALSE, json_files |-> <<>>])
    /\ clf = NewClassifier("idle", <<>>)

Next ==
    \E s \in DOMAIN sess :
        \/ Start(s)
        \/ Extract(s)
        \/ Invoke(s)
        \/ StreamChunk(s)
        \/ StreamFail(s)
        \/ StreamEnd(s)
        \/ Dispatch(s)
        \/ AppendResult(s)
        \/ FinishError(s)
        \/ FinishComplete(s)

Spec == Init /\ [][Next]_vars

(***************************************************************************)
(* The decision of a turn on every response text up to MaxLen tokens: the  *)
(* session has received the text as one chunk of its first turn, and the   *)
(* stream ends.                                                            *)
(***************************************************************************)
ParseAlphabet == {"w", "{", "}", "tool=consultar_ley", "args=fianza", "tool="}

Texts == UNION { [1..n -> ParseAlphabet] : n \in 0..MaxLen }

ReadablePdf == [exists |-> TRUE, readable |-> TRUE, chars |-> 3001]

\* the frame of a session whose first response was streamed as `text`
AtStreamEnd(text) ==
    LET f == Invoked(Extracted(Started(NewSession(ReadablePdf)))) IN
    IF text = <<>> THEN f ELSE Chunked(f, text)

InitParse ==
    \E text \in Texts :
        /\ sess = [s \in Sessions |-> AtStreamEnd(text)]
        /\ llm = {text}
        /\ srv = NewServer([exists |-> FALSE, json_files |-> <<>>])
        /\ clf = NewClassifier("idle", <<>>)

NextParse == \E s \in Sessions : StreamEnd(s)

SpecParse == InitParse /\ [][NextParse]_vars

(***************************************************************************)
(* The result built from every final response up to MaxLen tokens, a token *)
(* being a word of prose or one of the section words                       *)
(* _create_dummy_result looks for.                                         *)
(***************************************************************************)
ReportAlphabet == {"w", "Conclusión", "Recomendaciones", "Recomendación"}

InitReport ==
    \E text \in UNION { [1..n -> ReportAlphabet] : n \in 0..MaxLen } :
        /\ sess = [s \in Sessions |-> AtStreamEnd(text)]
        /\ llm = {text}
        /\ srv = NewServer([exists |-> FALSE, json_files |-> <<>>])
        /\ clf = NewClassifier("idle", <<>>)

SpecReport == InitReport /\ [][NextParse]_vars

(***************************************************************************)
(* Two sessions interleaved on the module-level orchestrator instance: the *)
(* instance holds the client and the system prompt, each call of           *)
(* analyze_contract_streaming has its own frame. The sessions read         *)
(* different documents and the service answers with two different tool     *)
(* calls, neither of which reaches requests.post.                          *)
(***************************************************************************)
ConcSessions == {1, 2}

ConcPdf(s) == [exists |-> TRUE, readable |-> TRUE, chars |-> IF s = 1 THEN 50 ELSE 3001]

ConcFragments ==
    { <<"{", "tool=borrar", "args=fianza", "}">>,
      <<"{", "tool=consultar_ley", "}">> }

InitConc ==
    /\ sess = [s \in ConcSessions |-> NewSession(ConcPdf(s))]
    /\ llm = ConcFragments
    /\ srv = NewServer([exists |-> FALSE, json_files |-> <<>>])
    /\ clf = NewClassifier("idle", <<>>)

SpecConc == InitConc /\ [][Next]_vars

(***************************************************************************)
(* Observations of a session used by the properties below.                 *)
(***************************************************************************)
StatusCount(f, status) ==
    Cardinality({ i \in 1..Len(f.events) : f.events[i].status = status })

LastStatus(f) == IF f.events = <<>> THEN "" ELSE f.events[Len(f.events)].status

\* the response is a tool request as the design describes it: the text from
\* the first "{" to the last "}" parses to an object with a `tool` field
IsToolRequest(text) ==
    LET v == _parse_tool_call(text) IN v.kind = "dict" /\ "tool" \in DOMAIN v.items

\* the response is a tool call as the loop detects it
Detected(text) == Truthy(_parse_tool_call(text))

\* the complete responses the session has received so far
ResponsesOf(f) ==
    LET assistant == SelectSeq(f.messages, LAMBDA m : m.role = "assistant") IN
    [i \in 1..Len(assistant) |-> assistant[i].content]
        \o (IF LastStatus(f) = "complete" THEN <<f.response_full>> ELSE <<>>)

Terminated(f) == f.pc \in {"returned", "raised"}

C2_CompleteState ==
    \A s \in Sessions :
        LET f == sess[s] IN
        /\ StatusCount(f, "complete") > 0
           => /\ ~Detected(f.response_full)
              /\ LastStatus(f) = "complete"
              /\ f.pc \in {"complete", "returned"}
              /\ Len(f.llm_requests) = f.turn + 1
        /\ \A i \in 1..Len(f.messages) :
               f.messages[i].role = "assistant" => Detected(f.messages[i].content)
        /\ f.pc \in {"mcp_calls", "mcp_done"} => Detected(f.response_full)

C2_CompleteStep ==
    \A s \in Sessions :
        ( /\ sess[s].pc = "streaming"
          /\ sess'[s].pc \notin {"streaming", "error"}
          /\ ~Detected(sess[s].response_full) )
        => /\ sess'[s].pc = "complete"
           /\ sess'[s].messages = sess[s].messages
           /\ sess'[s].turn = sess[s].turn

Rank(f) ==
    (MaxChunks - f.chunks) +
    ( CASE f.pc = "start" -> 4 * MaxTurns + 6
        [] f.pc = "extracting" -> 4 * MaxTurns + 5
        [] f.pc = "analyzing" -> 4 * (MaxTurns - f.turn) + 4
        [] f.pc = "streaming" -> 4 * (MaxTurns - f.turn) + 3
        [] f.pc = "mcp_calls" -> 4 * (MaxTurns - f.turn) + 2
        [] f.pc = "mcp_done" -> 4 * (MaxTurns - f.turn) + 1
        [] f.pc \in {"error", "complete"} -> 1
        [] OTHER -> 0 )

C3_Bounded ==
    \A s \in Sessions :
        /\ Len(sess[s].llm_requests) <= MaxTurns
        /\ Rank(sess[s]) >= 0
        /\ ~Terminated(sess[s]) => ENABLED Next

C3_Progress ==
    \A s \in Sessions : sess'[s] # sess[s] => Rank(sess'[s]) < Rank(sess[s])

C3_AtMostThreeInvocations == [](C3_Bounded) /\ [][C3_Progress]_vars

C3_Witness ==
    \E s \in Sessions :
        /\ sess[s].pc = "returned"
        /\ Len(sess[s].llm_requests) = MaxTurns
        /\ LastStatus(sess[s]) = "mcp_done"

(***************************************************************************)
(* C4. As claimed: when extract_text fails, the session emits an error     *)
(* event that carries the failure reason as its last event, and the        *)
(* reasoning service is never invoked.                                     *)
(***************************************************************************)
C4_ExtractionFailureEmitsError ==
    \A s \in Sessions :
        LET f == sess[s] IN
        (f.pc \notin {"start", "extracting"} /\ extract_text(f.pdf).raised)
        => /\ f.llm_requests = <<>>
           /\ LastStatus(f) = "error"
           /\ f.events[Len(f.events)].message = <<extract_text(f.pdf).reason>>

(***************************************************************************)
(* C5. When a reasoning invocation fails, the session emits one error      *)
(* event, which stays its only error event and its last event: no event,   *)
(* reasoning invocation, tool request or history entry follows it.         *)
(***************************************************************************)
C5_ErrorState ==
    \A s \in Sessions :
        LET f == sess[s] IN
        /\ StatusCount(f, "error") <= 1
        /\ f.pc = "error" => StatusCount(f, "error") = 1
        /\ StatusCount(f, "error") = 1
           => LastStatus(f) = "error" /\ f.pc \in {"error", "returned"}

C5_ErrorStep ==
    \A s \in Sessions :
        LET f == sess[s]
            g == sess'[s]
        IN  /\ (f.pc = "streaming" /\ g.pc = "error")
               => /\ Len(g.events) = Len(f.events) + 1
                  /\ SubSeq(g.events, 1, Len(f.events)) = f.events
                  /\ LastStatus(g) = "error"
            /\ StatusCount(f, "error") > 0
               => /\ g.events = f.events
                  /\ g.llm_requests = f.llm_requests
                  /\ g.mcp_requests = f.mcp_requests
                  /\ g.messages = f.messages

C5_ErrorIsLast == [](C5_ErrorState) /\ [][C5_ErrorStep]_vars

C5_Witness ==
    \E s \in Sessions :
        /\ sess[s].pc = "returned"
        /\ LastStatus(sess[s]) = "error"
        /\ sess[s].turn = 1
        /\ sess[s].response_full # <<>>

(***************************************************************************)
(* C6. When the request of a dispatched tool times out, fails in transport *)
(* or returns a non-success status, the tool result is an error payload    *)
(* with an empty result list, no error event is emitted, and the loop      *)
(* appends the payload as the tool result and goes on to the next turn     *)
(* while turns remain.                                                     *)
(***************************************************************************)
FailedOutcome(http) == http.kind # "response" \/ http.status_code # 200

ListKey(f) == IF Get(f.tool_call, "tool") = "clasificar_texto" THEN "clauses" ELSE "results"

ErrorShaped(tokens, list_key) ==
    \E e \in {"timeout", "connection_error", "Status 500"} :
        tokens = <<"{", "error=", e, list_key, "=[", "]", "}">>

\* the request of the tool dispatched in this turn failed
ToolFailed(f) ==
    /\ f.pc = "mcp_done"
    /\ DispatchPosts(f)
    /\ f.mcp_requests # <<>>
    /\ FailedOutcome(f.mcp_requests[Len(f.mcp_requests)].outcome)

C6_FailedState ==
    \A s \in Sessions :
        LET f == sess[s] IN
        /\ f.pc = "mcp_done" /\ DispatchPosts(f) => f.mcp_requests # <<>>
        /\ ToolFailed(f)
           => /\ ErrorShaped(f.tool_result, ListKey(f))
              /\ StatusCount(f, "error") = 0
              /\ LastStatus(f) = "mcp_done"

C6_FailedStep ==
    \A s \in Sessions :
        LET f == sess[s]
            g == sess'[s]
        IN  (ToolFailed(f) /\ g # f)
            => /\ g.messages # <<>>
               /\ g.messages[Len(g.messages)].role = "user"
               /\ g.messages[Len(g.messages)].content =
                      <<"RESULTADO DE HERRAMIENTA (", Get(f.tool_call, "tool"), "):">>
                          \o f.tool_result \o <<". Continúa tu análisis.">>
               /\ StatusCount(g, "error") = 0
               /\ f.turn + 1 < MaxTurns => g.pc = "analyzing"
               /\ g.pc \in {"analyzing", "returned"}

C6_ToolFailureContinues == [](C6_FailedState) /\ [][C6_FailedStep]_vars

C6_Witness ==
    \E s \in Sessions :
        /\ sess[s].pc = "analyzing"
        /\ sess[s].turn = 1
        /\ Len(sess[s].mcp_requests) = 1
        /\ sess[s].mcp_requests[1].outcome.kind = "timeout"
        /\ ErrorShaped(sess[s].tool_result, "results")

(***************************************************************************)
(* C7. As claimed: a turn dispatches a tool (mcp_calls, mcp_done) only if  *)
(* the text from the first "{" to the last "}" of its response parses to   *)
(* an object with a `tool` field.                                          *)
(***************************************************************************)
C7_DispatchNeedsToolField ==
    \A s \in Sessions :
        sess[s].pc \in {"mcp_calls", "mcp_done"} => IsToolRequest(sess[s].response_full)

(***************************************************************************)
(* C8. _parse_tool_call never raises.  On prose around one JSON object it  *)
(* returns that object, with the tool name and the args of its members; on *)
(* a text with no "{", with no "}", or whose text from the first "{" to    *)
(* the last "}" is no JSON object it returns None, and the turn completes  *)
(* without an error.                                                       *)
(***************************************************************************)
Prose(text) == \A i \in 1..Len(text) : text[i] = "w"

\* text is prose, "{", the members from i + 1 to j - 1, "}", prose
WrapsObject(text, i, j) ==
    /\ i < j
    /\ text[i] = "{"
    /\ text[j] = "}"
    /\ Prose(SubSeq(text, 1, i - 1))
    /\ Prose(SubSeq(text, j + 1, Len(text)))
    /\ \A k \in (i + 1)..(j - 1) : IsMember(text[k])

\* text holds no JSON object between its first "{" and its last "}"
NoObject(text) ==
    \/ ~Contains(text, "{")
    \/ ~Contains(text, "}")
    \/ RFind(text, "}") < Find(text, "{")
    \/ \E k \in (Find(text, "{") + 2)..RFind(text, "}") : ~IsMember(text[k])

C8_ParseNeverRaises ==
    \A s \in Sessions :
        LET f == sess[s]
            text == f.response_full
        IN  /\ f.pc \notin {"raised", "error"}
            /\ StatusCount(f, "error") = 0
            /\ f.pc # "streaming"
               => /\ \A i, j \in 1..Len(text) :
                         WrapsObject(text, i, j)
                         => /\ f.tool_call.kind = "dict"
                            /\ DOMAIN f.tool_call.items =
                                   { MemberOf(text[k]).key : k \in (i + 1)..(j - 1) }
                            /\ \A k \in (i + 1)..(j - 1) :
                                   Get(f.tool_call, MemberOf(text[k]).key) = MemberOf(text[k]).val
                            /\ j > i + 1 => f.pc = "mcp_calls"
                  /\ NoObject(text) => f.tool_call = PyNone /\ f.pc = "complete"

C8_Witness ==
    \E s \in Sessions :
        /\ sess[s].pc = "mcp_calls"
        /\ sess[s].response_full =
               <<"w", "{", "tool=consultar_ley", "args=fianza", "}", "w">>
        /\ Get(sess[s].tool_call, "tool") = "consultar_ley"
        /\ Get(sess[s].tool_call, "args") = "fianza"

(***************************************************************************)
(* C9. As claimed: when the requested tool is neither consultar_ley nor    *)
(* clasificar_texto, no engine is called, the session does not fail, and   *)
(* the tool result is a "tool not found" string, not the empty string.     *)
(***************************************************************************)
C9_UnknownToolNotFound ==
    \A s \in Sessions :
        LET f == sess[s] IN
        ( /\ f.pc = "mcp_done"
          /\ IsToolRequest(f.response_full)
          /\ Get(f.tool_call, "tool") \notin {"consultar_ley", "clasificar_texto"} )
        => /\ ~DispatchPosts(f)
           /\ StatusCount(f, "error") = 0
           /\ f.tool_result # <<>>
           /\ Contains(f.tool_result, "tool not found")

(***************************************************************************)
(* C10. The step that ends a tool turn appends exactly two entries to the  *)
(* history, the assistant entry with the raw response and then the user    *)
(* entry with the tool result, leaves the earlier entries as they are,     *)
(* uses up one turn, and is followed by a reasoning turn on the extended   *)
(* history unless the budget is exhausted; no other step of the loop       *)
(* touches the history or the turn counter.                                *)
(***************************************************************************)
C10_ToolTurnStep ==
    \A s \in Sessions :
        LET f == sess[s]
            g == sess'[s]
            n == Len(f.messages)
        IN  /\ (f.pc = "mcp_done" /\ g # f)
               => /\ Len(g.messages) = n + 2
                  /\ SubSeq(g.messages, 1, n) = f.messages
                  /\ g.messages[n + 1] = Message("assistant", f.response_full)
                  /\ g.messages[n + 2] =
                         Message("user",
                                 <<"RESULTADO DE HERRAMIENTA (", Str(Get(f.tool_call, "tool")), "):">>
                                     \o f.tool_result \o <<". Continúa tu análisis.">>)
                  /\ g.turn = f.turn + 1
                  /\ g.pc = IF g.turn < MaxTurns THEN "analyzing" ELSE "returned"
            /\ f.pc \notin {"mcp_done", "extracting"}
               => g.messages = f.messages /\ g.turn = f.turn

C10_ReasoningOnHistory ==
    \A s \in Sessions :
        LET f == sess[s] IN
        f.pc = "streaming"
        => /\ Len(f.llm_requests) = f.turn + 1
           /\ f.llm_requests[Len(f.llm_requests)] = f.messages

C10_ToolTurnAppendsTwo == [](C10_ReasoningOnHistory) /\ [][C10_ToolTurnStep]_vars

C10_Witness ==
    \E s \in Sessions :
        /\ sess[s].pc = "streaming"
        /\ sess[s].turn = 2
        /\ Len(sess[s].messages) = 6
        /\ sess[s].messages[5].role = "assistant"
        /\ sess[s].messages[6].role = "user"

(***************************************************************************)
(* C11. As claimed: no transition of a session is silent. The first event  *)
(* is extracting, every reasoning invocation is preceded by an analyzing   *)
(* event of its turn, every tool dispatch lies between an mcp_calls and an *)
(* mcp_done event, and every end of a session is marked by an event: the   *)
(* complete event, an error event, or the mcp_done of the last turn the    *)
(* budget allows.                                                          *)
(***************************************************************************)
C11_EveryTransitionHasEvent ==
    \A s \in Sessions :
        LET f == sess[s]
            n == Len(f.events)
        IN  /\ f.pc # "start" => n > 0 /\ f.events[1].status = "extracting"
            /\ Len(f.llm_requests) <= StatusCount(f, "analyzing")
            /\ f.pc = "streaming" /\ f.response_full = <<>>
               => LastStatus(f) = "analyzing"
            /\ f.pc = "mcp_done"
               => /\ n >= 2
                  /\ f.events[n].status = "mcp_done"
                  /\ f.events[n - 1].status = "mcp_calls"
            /\ StatusCount(f, "mcp_done") <= StatusCount(f, "mcp_calls")
            /\ Terminated(f)
               => \/ LastStatus(f) \in {"complete", "error"}
                  \/ LastStatus(f) = "mcp_done" /\ StatusCount(f, "mcp_done") = MaxTurns

\* the index of the last event of the given status, 0 when there is none
LastIndex(f, status) ==
    LET at == { i \in 1..Len(f.events) : f.events[i].status = status } IN
    IF at = {} THEN 0 ELSE CHOOSE i \in at : \A j \in at : j <= i

\* the fragments forwarded since the last analyzing event, in emission order
ForwardedChunks(f) ==
    LET from == LastIndex(f, "analyzing")
        late == SubSeq(f.events, from + 1, Len(f.events))
        fwd  == SelectSeq(late, LAMBDA e : e.status = "analyzing_chunk")
    IN  [i \in 1..Len(fwd) |-> fwd[i].chunk]

(***************************************************************************)
(* C12. In every reasoning turn the fragments forwarded as analyzing_chunk *)
(* events, concatenated in emission order, are the accumulated response:   *)
(* the string whose tool call is detected and from which the complete      *)
(* event is built. No fragment is dropped, duplicated or reordered.        *)
(***************************************************************************)
C12_ChunksAreTheResponse ==
    \A s \in Sessions :
        LET f == sess[s]
            forwarded == Flatten(ForwardedChunks(f))
        IN  /\ f.pc # "analyzing" => forwarded = f.response_full
            /\ f.pc \in {"mcp_calls", "mcp_done"}
               => f.tool_call = _parse_tool_call(forwarded)
            /\ LastStatus(f) = "complete"
               => f.events[Len(f.events)].result =
                      _create_dummy_result(f.contract_text, forwarded)

C12_Witness ==
    \E s \in Sessions :
        LET f == sess[s] IN
        /\ f.pc = "mcp_calls"
        /\ f.turn = 1
        /\ Len(ForwardedChunks(f)) = 2
        /\ ForwardedChunks(f)[1] # ForwardedChunks(f)[2]
        /\ f.response_full = ForwardedChunks(f)[1] \o ForwardedChunks(f)[2]

\* the index of the j-th analyzing event of a session
TurnStart(f, j) ==
    CHOOSE i \in 1..Len(f.events) :
        /\ f.events[i].status = "analyzing"
        /\ Cardinality({ k \in 1..i : f.events[k].status = "analyzing" }) = j

\* the response a session received in its j-th turn, read from its own events
TurnResponse(f, j) ==
    LET a   == TurnStart(f, j)
        b   == IF StatusCount(f, "analyzing") > j THEN TurnStart(f, j + 1)
               ELSE Len(f.events) + 1
        fwd == SelectSeq(SubSeq(f.events, a + 1, b - 1),
                         LAMBDA e : e.status = "analyzing_chunk")
    IN  Flatten([i \in 1..Len(fwd) |-> fwd[i].chunk])

\* the seed messages of a session, from its own document
OwnSeed(f) ==
    << Message("system", system_prompt),
       Message("user", <<"Analiza este documento y detecta infracciones:",
                         ToString(Prefix(extract_text(f.pdf).text, PreviewLen)), "...">>) >>

\* the two entries are the j-th response of the session and a result of the
\* tool that response requests, run on the session's own document
OwnToolTurn(f, j, entries) ==
    LET g == [f EXCEPT !.response_full = TurnResponse(f, j),
                       !.tool_call = _parse_tool_call(TurnResponse(f, j))]
    IN  \E http \in LawOutcomes \cup ClassifierOutcomes :
            entries = ToolTurnEntries([g EXCEPT !.tool_result = ToolResult(g, http)])

C13_OwnHistory ==
    \A s \in DOMAIN sess :
        LET f == sess[s] IN
        \A k \in 1..Len(f.llm_requests) :
            LET h == f.llm_requests[k] IN
            /\ Len(h) = 2 * k
            /\ SubSeq(h, 1, 2) = OwnSeed(f)
            /\ \A j \in 1..(k - 1) : OwnToolTurn(f, j, SubSeq(h, 2 * j + 1, 2 * j + 2))

C13_OwnTurnCount ==
    \A s \in DOMAIN sess :
        LET f == sess[s] IN
        f.turn = StatusCount(f, "mcp_done") - (IF f.pc = "mcp_done" THEN 1 ELSE 0)

C13_TurnStep ==
    \A s \in DOMAIN sess :
        sess'[s].turn # sess[s].turn
        => /\ sess[s].pc = "mcp_done"
           /\ sess'[s].turn = sess[s].turn + 1
           /\ \A t \in DOMAIN sess \ {s} : sess'[t] = sess[t]

(***************************************************************************)
(* C13. When two sessions run interleaved on the shared orchestrator       *)
(* instance, every reasoning invocation of a session receives a history    *)
(* made only of that session's seed messages, its own responses and its    *)
(* own tool results, and the turn count of a session advances only by that *)
(* session's own tool turns.                                               *)
(***************************************************************************)
C13_SessionsIsolated ==
    [](C13_OwnHistory /\ C13_OwnTurnCount) /\ [][C13_TurnStep]_vars

C13_Witness ==
    /\ DOMAIN sess = ConcSessions
    /\ sess[1].pc = "streaming" /\ sess[1].turn = 2
    /\ sess[2].pc = "streaming" /\ sess[2].turn = 1
    /\ sess[1].messages[3] # sess[2].messages[3]
    /\ C13_OwnHistory

C14_ExhaustedState ==
    \A s \in Sessions :
        LET f == sess[s] IN
        StatusCount(f, "mcp_calls") = MaxTurns
        => /\ StatusCount(f, "complete") = 0
           /\ StatusCount(f, "error") = 0
           /\ Len(f.llm_requests) = MaxTurns
           /\ f.pc \in {"mcp_calls", "mcp_done", "returned"}
           /\ f.pc = "returned"
              => /\ LastStatus(f) = "mcp_done"
                 /\ StatusCount(f, "mcp_done") = MaxTurns
                 /\ Len(f.mcp_requests) <= MaxTurns

C14_ExhaustedStep ==
    \A s \in Sessions :
        LET f == sess[s]
            g == sess'[s]
        IN  f.pc = "mcp_done" /\ StatusCount(f, "mcp_done") = MaxTurns /\ g # f
            => g.pc = "returned" /\ g.events = f.events

(***************************************************************************)
(* C14. When each of the MaxTurns turns detects a tool request, the        *)
(* session ends right after the third tool dispatch: it has neither a      *)
(* complete nor an error event, and its last event is the mcp_done of the  *)
(* third turn.                                                             *)
(***************************************************************************)
C14_BudgetExhaustedEndsSilently ==
    [](C14_ExhaustedState) /\ [][C14_ExhaustedStep]_vars

C14_Witness ==
    \E s \in Sessions :
        /\ sess[s].pc = "returned"
        /\ sess[s].turn = MaxTurns
        /\ StatusCount(sess[s], "mcp_calls") = MaxTurns
        /\ StatusCount(sess[s], "mcp_done") = MaxTurns
        /\ LastStatus(sess[s]) = "mcp_done"

(***************************************************************************)
(* C15. A session emits at most one complete event, which carries the      *)
(* analysis result built from the final response; a complete and an error  *)
(* event never both occur in one session; and nothing is emitted after a   *)
(* complete event.                                                         *)
(***************************************************************************)
C15_CompleteIsFinalAndUnique ==
    \A s \in Sessions :
        LET f == sess[s]
            n == Len(f.events)
        IN  /\ StatusCount(f, "complete") <= 1
            /\ ~(StatusCount(f, "complete") > 0 /\ StatusCount(f, "error") > 0)
            /\ \A i \in 1..n :
                   f.events[i].status = "complete"
                   => /\ i = n
                      /\ f.pc \in {"complete", "returned"}
                      /\ f.events[i].result =
                             _create_dummy_result(f.contract_text, f.response_full)

C15_Witness ==
    \E s \in Sessions :
        LET f == sess[s] IN
        /\ f.pc = "returned"
        /\ f.turn = 2
        /\ StatusCount(f, "complete") = 1
        /\ StatusCount(f, "mcp_done") = 2
        /\ LastStatus(f) = "complete"

(***************************************************************************)
(* Observations of the law retriever used by the properties below.         *)
(***************************************************************************)
\* the lookups the server has answered with status "ok"
Answered == { i \in 1..Len(srv.lookup) : srv.lookup[i].response.status = "ok" }

\* the scores of the records of LAWS for the tokens of a lookup
ScoresFor(call) ==
    [k \in 1..Len(srv.LAWS) |-> Scored(srv.LAWS[k], call.response.tokens_used).score]

\* the places in LAWS of the records a lookup returned
PlacesOf(call) ==
    [i \in 1..Len(call.response.results) |->
        CHOOSE k \in 1..Len(srv.LAWS) : srv.LAWS[k].id = call.response.results[i].id]

(***************************************************************************)
(* C16. For every topic and collection, law_lookup returns at most TopK    *)
(* records of the collection, each with a score above 0, in non-increasing *)
(* order of score, records of equal score in the order of the collection;  *)
(* and no matching record that is left out has a higher score than a       *)
(* returned one.                                                           *)
(***************************************************************************)
C16_TopKByScoreStable ==
    \A c \in Answered :
        \A score \in {ScoresFor(srv.lookup[c])}, place \in {PlacesOf(srv.lookup[c])} :
            LET r == srv.lookup[c].response.results IN
            /\ Len(r) <= TopK
            /\ \A i \in 1..Len(r) :
                   srv.LAWS[place[i]] = r[i] /\ score[place[i]] > 0
            /\ \A i, j \in 1..Len(r) :
                   i < j
                   => \/ score[place[i]] > score[place[j]]
                      \/ score[place[i]] = score[place[j]] /\ place[i] < place[j]
            /\ \A k \in 1..Len(srv.LAWS) :
                   score[k] > 0 /\ (\A i \in 1..Len(r) : place[i] # k)
                   => /\ Len(r) = TopK
                      /\ \A i \in 1..Len(r) : score[k] <= score[place[i]]

C16_Witness ==
    \E c \in Answered :
        LET call  == srv.lookup[c]
            r     == call.response.results
            score == ScoresFor(call)
            place == PlacesOf(call)
        IN  /\ call.response.total_results > TopK
            /\ Len(r) = TopK
            /\ score[place[1]] > score[place[2]]
            /\ score[place[2]] = score[place[3]]
            /\ score[place[3]] > score[place[TopK]]
            /\ place[1] > place[TopK]

\* the lower-cased concatenation of title, body, keywords and notes of a record
Concatenation(entry) ==
    str_lower(dict_get(entry, "title", <<>>) \o <<" ">>
                  \o dict_get(entry, "text", <<>>) \o <<" ">>
                  \o str_join(dict_get(entry, "keywords", <<>>)) \o <<" ">>
                  \o dict_get(entry, "notes", <<>>))

\* the score as the scoring rule states it
StatedScore(entry, tokens) ==
    LET hits == { i \in 1..Len(tokens) : str_in(tokens[i], Concatenation(entry)) } IN
    IF hits = {} THEN 0
    ELSE Cardinality(hits)
             + (IF \E i \in 1..Len(tokens) : str_in(tokens[i], str_lower(entry.title))
                THEN 2 ELSE 0)

\* the topic of the example and its two records
IsExampleTopic(call) == call.response.query = <<"f", "i", "a", "n", "z", "a", " ", "a", "l", "q", "u", "i", "l", "e", "r">>

IsExampleTitled(entry) ==
    /\ entry.title = <<"F", "i", "a", "n", "z", "a", " ", "e", "n", " ", "a", "r", "r", "e", "n", "d", "a", "m", "i", "e", "n", "t", "o", "s">>
    /\ str_in(<<"a", "l", "q", "u", "i", "l", "e", "r">>, str_lower(entry.text))

IsExampleBodyOnly(entry) ==
    /\ ~str_in(<<"f", "i", "a", "n", "z", "a">>, Concatenation(entry))
    /\ ~str_in(<<"a", "l", "q", "u", "i", "l", "e", "r">>, str_lower(entry.title))
    /\ str_in(<<"a", "l", "q", "u", "i", "l", "e", "r">>, str_lower(entry.text))

(***************************************************************************)
(* C17. The score of a record is the number of query tokens that occur as  *)
(* substrings of the lower-cased concatenation of its title, body,         *)
(* keywords and notes, plus 2 when at least one query token occurs in the  *)
(* title; the records of score 0 are not results. For the topic "fianza    *)
(* alquiler" a record titled "Fianza en arrendamientos" with "alquiler" in *)
(* its body scores 4 and is ranked above every record that matches only    *)
(* "alquiler" in its body, which scores 1.                                 *)
(***************************************************************************)
\* the scores of the records of LAWS as the rule states them
StatedScores(call) ==
    [k \in 1..Len(srv.LAWS) |-> StatedScore(srv.LAWS[k], call.response.tokens_used)]

\* the places in LAWS of the scored results of a lookup
ScoredPlaces(call) ==
    [i \in 1..Len(call.scored_results) |->
        CHOOSE k \in 1..Len(srv.LAWS) : srv.LAWS[k].id = call.scored_results[i].law.id]

C17_ScoreIsTokensPlusTitleBonus ==
    \A c \in Answered :
        \A stated \in {StatedScores(srv.lookup[c])}, place \in {ScoredPlaces(srv.lookup[c])} :
            LET call   == srv.lookup[c]
                scored == call.scored_results
                titled == { i \in 1..Len(scored) : IsExampleTitled(scored[i].law) }
                body   == { i \in 1..Len(scored) : IsExampleBodyOnly(scored[i].law) }
            IN  /\ \A i \in 1..Len(scored) :
                       scored[i].law = srv.LAWS[place[i]] /\ scored[i].score = stated[place[i]]
                /\ Len(scored) = Cardinality({ k \in 1..Len(srv.LAWS) : stated[k] > 0 })
                /\ call.response.total_results = Len(scored)
                /\ IsExampleTopic(call)
                   => /\ \A i \in titled : scored[i].score = 4
                      /\ \A j \in body : scored[j].score = 1
                      /\ \A i \in titled, j \in body : i < j

C17_Witness ==
    \E c \in Answered :
        LET call   == srv.lookup[c]
            r      == call.response.results
        IN  /\ IsExampleTopic(call)
            /\ Len(r) >= 2
            /\ IsExampleTitled(r[1])
            /\ IsExampleBodyOnly(r[Len(r)])
            /\ PlacesOf(call)[1] > PlacesOf(call)[Len(r)]

\* the number of query tokens that occur somewhere in a record
TokensMatched(entry, tokens) ==
    Cardinality({ i \in 1..Len(tokens) : str_in(tokens[i], Concatenation(entry)) })

TitleMatched(entry, tokens) ==
    \E i \in 1..Len(tokens) : str_in(tokens[i], str_lower(entry.title))

(***************************************************************************)
(* C18. As claimed: for a query of three tokens, a record that matches all *)
(* three is ranked no lower than a record that matches only two of them,   *)
(* wherever in the records the matches occur.                              *)
(***************************************************************************)
C18_AllThreeBeforeTwo ==
    \A c \in Answered :
        LET call   == srv.lookup[c]
            tokens == call.response.tokens_used
            scored == call.scored_results
            all3   == { i \in 1..Len(scored) : TokensMatched(scored[i].law, tokens) = 3 }
            only2  == { i \in 1..Len(scored) : TokensMatched(scored[i].law, tokens) = 2 }
        IN  Len(tokens) = 3 => \A i \in all3 : \A j \in only2 : i < j

(* C18 as amended: the record that matches all three tokens is ranked no   *)
(* lower than the one that matches two, unless the latter has a query      *)
(* token in its title and the former has none (the title bonus then        *)
(* outweighs the third token).                                             *)
C18_AllThreeBeforeTwoSameTitleBonus ==
    \A c \in Answered :
        LET call   == srv.lookup[c]
            tokens == call.response.tokens_used
            scored == call.scored_results
            all3   == { i \in 1..Len(scored) : TokensMatched(scored[i].law, tokens) = 3 }
            only2  == { i \in 1..Len(scored) : TokensMatched(scored[i].law, tokens) = 2 }
            titled == { i \in 1..Len(scored) : TitleMatched(scored[i].law, tokens) }
        IN  Len(tokens) = 3
            => \A i \in all3 :
                   \A j \in only2 : (j \in titled => i \in titled) => i < j

C18_Witness ==
    \E c \in Answered :
        LET call   == srv.lookup[c]
            tokens == call.response.tokens_used
            r      == call.response.results
        IN  /\ Len(tokens) = 3
            /\ \E i, j \in 1..Len(r) :
                   /\ i < j
                   /\ TokensMatched(r[i], tokens) = 3 /\ ~TitleMatched(r[i], tokens)
                   /\ TokensMatched(r[j], tokens) = 2 /\ ~TitleMatched(r[j], tokens)
                   /\ PlacesOf(call)[i] > PlacesOf(call)[j]

\* the lookup of the search engine has an empty or blank topic
BlankTopic(params) == str_strip(dict_get(params, "topic", <<>>)) = <<>>

\* a payload of the search engine that carries an explicit error signal
Signalled(response) ==
    /\ response.status = "error"
    /\ "message" \in DOMAIN response
    /\ response.results = <<>>

C19_EngineLookup ==
    \A c \in 1..Len(srv.lookup) :
        LET call == srv.lookup[c] IN
        /\ BlankTopic(call.params) => Signalled(call.response)
        /\ ( /\ ~BlankTopic(call.params)
             /\ \A k \in 1..Len(srv.LAWS) :
                    TokensMatched(srv.LAWS[k], call.response.tokens_used) = 0 )
           => call.response.status = "ok" /\ call.response.results = <<>>

\* the session has dispatched consultar_ley with a blank topic
BlankLookupDone(f) ==
    /\ f.pc = "mcp_done"
    /\ Get(f.tool_call, "tool") = "consultar_ley"
    /\ Get(f.tool_call, "args") = "  "

C19_ManagerLookup ==
    \A s \in DOMAIN sess :
        LET f == sess[s] IN
        BlankLookupDone(f)
        => /\ Contains(f.tool_result, "results")
           /\ Contains(f.tool_result, "error=") \/ Contains(f.tool_result, "status=")

(***************************************************************************)
(* C19. As claimed: a lookup with an empty or blank topic, made on the     *)
(* search engine's law_lookup or through MCPToolsManager.law_lookup,       *)
(* returns an empty result list with an explicit error signal, never a     *)
(* payload without one; a topic that matches no record returns an empty    *)
(* result list with status "ok".                                           *)
(***************************************************************************)
C19_BlankTopicSignalled == C19_EngineLookup /\ C19_ManagerLookup

\* the articles a file offers to the loader, in order
CandidatesOf(filepath) ==
    LET data == filepath.data IN
    IF filepath.st_size = 0 THEN <<>>
    ELSE IF ~isinstance_dict(data)
    THEN IF data.json = "list" THEN data.value ELSE <<>>
    ELSE IF "articles" \in DOMAIN data THEN data.articles
    ELSE <<data>>

\* the record has an id, a title and a text that are not empty or blank
Complete(article) ==
    /\ isinstance_dict(article)
    /\ \A field \in {"id", "title", "text"} :
           /\ field \in DOMAIN article
           /\ \E i \in 1..Len(article[field]) : article[field][i] \notin Whitespace

\* the complete articles of the directory, in the order of its files
CompleteArticles(laws_dir) ==
    SelectSeq(Flatten([i \in 1..Len(laws_dir.json_files) |->
                          CandidatesOf(laws_dir.json_files[i])]),
              Complete)

(***************************************************************************)
(* C20. After load_laws_from_directory every record of LAWS has a          *)
(* non-empty id, title and text; an article that lacks one of them or has  *)
(* it empty or blank is skipped, and the articles after it in the same     *)
(* file and in the later files are still loaded.                           *)
(***************************************************************************)
C20_OnlyCompleteArticlesLoaded ==
    srv.phase = "serving"
    => LET expected == CompleteArticles(srv.laws_dir) IN
       /\ \A k \in 1..Len(srv.LAWS) : Complete(srv.LAWS[k])
       /\ Len(srv.LAWS) = Len(expected)
       /\ \A k \in 1..Len(expected) :
              \A field \in DOMAIN expected[k] \ {"domain"} :
                  srv.LAWS[k][field] = expected[k][field]

C20_Witness ==
    /\ srv.phase = "serving"
    /\ Len(srv.laws_dir.json_files) = 2
    /\ Len(CandidatesOf(srv.laws_dir.json_files[1])) = 4
    /\ Len(CandidatesOf(srv.laws_dir.json_files[2])) = 2
    /\ Len(srv.LAWS) = 3
    /\ srv.LAWS[1].id = <<"A", "1", "1">>
    /\ srv.LAWS[2].id = <<"A", "1", "4">>
    /\ srv.LAWS[3].id = <<"A", "2", "5">>

(***************************************************************************)
(* Properties of the clause classifier (SpecClassifier).                   *)
(***************************************************************************)
\* classify_clause has returned for the clause text
Classified == clf.op = "classify_clause" /\ clf.output # <<>>

\* it has also returned for the text with one more high-risk phrase
Revised == Classified /\ clf.revised # <<>>

\* the text of the second call
RevisedText == clf.input \o <<" ">> \o clf.revised[1].phrase

\* C21: for every clause text and every clause type, the risk_score that
\* calculate_risk_level returns is an integer between 0 and 100
C21_RiskScoreInRange ==
    /\ Classified =>
           /\ clf.output[1].risk_score \in 0..100
           /\ \A t \in 1..Len(ClauseType) :
                  calculate_risk_level(clf.input, ClauseType[t]).risk_score \in 0..100
    /\ Revised => clf.revised[1].clause.risk_score \in 0..100

\* a clause whose running score is above 100 has been given 100
C21_Witness ==
    /\ Classified
    /\ risk_points(clf.input) > 100
    /\ clf.output[1].risk_score = 100

\* C22: one more occurrence of a high-risk phrase in the text of a clause
\* never lowers the risk_score classify_clause gives it
C22_MorePhrasesNeverLower ==
    Revised => clf.revised[1].clause.risk_score >= clf.output[1].risk_score

\* a clause at the floor of its type got a high-risk phrase that changed the
\* detected type and lifted the score; another one went from below 100 to 100
C22_Witness ==
    /\ Revised
    /\ \/ /\ risk_points(clf.input) < 10
          /\ clf.output[1].risk_score = 20
          /\ clf.revised[1].clause.clause_type # clf.output[1].clause_type
          /\ clf.revised[1].clause.risk_score > 20
       \/ /\ clf.output[1].risk_score < 100
          /\ risk_points(RevisedText) > 100
          /\ clf.revised[1].clause.risk_score = 100

\* the level that goes with a score by the fixed thresholds
LevelByThreshold(clause) ==
    /\ clause.risk_level = "HIGH" <=> clause.risk_score >= 50
    /\ clause.risk_level = "MEDIUM" <=> (25 <= clause.risk_score /\ clause.risk_score < 50)
    /\ clause.risk_level = "LOW" <=> clause.risk_score < 25

\* C23: the risk level of every ClassifiedClause follows from its risk score:
\* High exactly from 50 on, Medium exactly from 25 to 49, Low exactly below 25
C23_LevelFollowsScore ==
    /\ Classified => LevelByThreshold(clf.output[1])
    /\ Revised => LevelByThreshold(clf.revised[1].clause)

\* a clause with a score of exactly 50 is High
C23_Witness ==
    /\ Classified
    /\ clf.output[1].risk_score = 50
    /\ clf.output[1].risk_level = "HIGH"

\* the keyword / red-flag total of each entry of CLAUSE_PATTERNS for a text
CategoryTotals(clause_text) ==
    [i \in 1..Len(CLAUSE_PATTERNS) |->
        pattern_score(str_lower(clause_text), CLAUSE_PATTERNS[i])]

\* C24: detect_clause_type returns the category with the highest total (1 per
\* keyword, 2 per red flag), among equal totals the one enumerated first, and
\* it returns Other with confidence 0 exactly when every total is 0
C24_FirstHighestCategory ==
    Classified =>
        \A total \in {CategoryTotals(clf.input)}, detected \in {detect_clause_type(clf.input)} :
            /\ clf.output[1].clause_type = detected.clause_type
            /\ detected.clause_type = "OTHER" <=> \A i \in DOMAIN total : total[i] = 0
            /\ detected.clause_type = "OTHER" => detected.confidence[1] = 0
            /\ detected.clause_type # "OTHER" =>
                   \E i \in DOMAIN total :
                       /\ CLAUSE_PATTERNS[i].type = detected.clause_type
                       /\ ClauseType[i] = detected.clause_type
                       /\ \A j \in DOMAIN total : total[j] <= total[i]
                       /\ \A j \in 1..(i - 1) : total[j] < total[i]
                       /\ detected.confidence[1] > 0

\* two categories share the highest total and the first of them is returned
C24_Witness ==
    /\ Classified
    /\ \E i, j \in 1..Len(CLAUSE_PATTERNS) :
           /\ i < j
           /\ CategoryTotals(clf.input)[i] = CategoryTotals(clf.input)[j]
           /\ CategoryTotals(clf.input)[i] > 0
           /\ \A k \in 1..Len(CLAUSE_PATTERNS) :
                  CategoryTotals(clf.input)[k] <= CategoryTotals(clf.input)[i]
           /\ clf.output[1].clause_type = CLAUSE_PATTERNS[i].type

\* the places where the term starts in the text
Occurrences(term, text) ==
    Cardinality({ i \in 0..(Len(text) - Len(term)) : SubSeq(text, i + 1, i + Len(term)) = term })

\* the occurrences of the first n high-risk terms in the text
RECURSIVE HighRiskOccurrences(_, _)
HighRiskOccurrences(text_lower, n) ==
    IF n = 0 THEN 0
    ELSE Occurrences(high_risk_terms[n], text_lower) + HighRiskOccurrences(text_lower, n - 1)

\* what the medium-risk terms, the length and the suffix words add
OtherPoints(clause_text) ==
      15 * Cardinality(terms_in(medium_risk_terms, str_lower(clause_text)))
    + (IF Len(clause_text) > 500 THEN 20 ELSE 0)
    + Min(complex_terms(str_lower(clause_text)) * 3, 30)

\* C25: every occurrence of a high-risk phrase adds 30 to the running score of
\* calculate_risk_level (before floor and clamp), so the same phrase twice
\* adds 60
C25_ThirtyPerOccurrence ==
    Classified =>
        risk_points(clf.input) =
            30 * HighRiskOccurrences(str_lower(clf.input), Len(high_risk_terms))
            + OtherPoints(clf.input)

\* the first five of the sorted words
FiveSmallest(words) ==
    SubSeq(sorted(words), 1, IF Cardinality(words) < 5 THEN Cardinality(words) ELSE 5)

\* C26: extract_key_terms returns the first 5 entries of the alphabetically
\* sorted list of the distinct words of 4 letters or more that are not stop
\* words: the 5 alphabetically smallest, the same on every run
C26_FiveSmallestKeyTerms ==
    /\ Classified => clf.output[1].key_terms = FiveSmallest(significant_words(clf.input))
    /\ Revised => clf.revised[1].clause.key_terms = FiveSmallest(significant_words(RevisedText))

\* split_clauses has returned for the contract text
Segmented == clf.op = "split_clauses" /\ clf.output # <<>>

\* the trimmed candidates of at least 15 characters
FifteenOrMore(clauses) ==
    LET kept(c) == Len(c) >= 15 IN
    SelectSeq([k \in 1..Len(clauses) |-> str_strip(clauses[k])], kept)

\* C27: split_clauses returns the candidates of the first strategy whose
\* trigger holds, trimmed, keeping those of exactly 15 characters or more and
\* dropping those of 14 or fewer
C27_KeepsFifteenOrMore ==
    Segmented => clf.output[1] = FifteenOrMore(clause_candidates(clf.input))

\* the tip of a clause type, the first words of the wording of a risk level
TypeTip(clause_type) ==
    CASE clause_type = "TERMINATION" -> "Exige que se especifiquen los motivos válidos de terminación"
      [] clause_type = "LIABILITY" -> "Verifica cobertura completa de daños y responsabilidades"
      [] clause_type = "PRIVACY" -> "Exige derechos de acceso, rectificación y eliminación de datos"
      [] clause_type = "MODIFICATION" -> "Requiere TU consentimiento para cambios importantes"
      [] OTHER -> ""

LevelWording(risk_level) ==
    CASE risk_level = "HIGH" -> "CRÍTICO: REVISAR CON ABOGADO - Riesgos significativos"
      [] risk_level = "MEDIUM" -> "REVISAR: Asegúrate de entender esta cláusula"
      [] OTHER -> "Esta cláusula parece razonable"

\* C28: _generate_recommendations returns at most 3 strings, and for a clause
\* of type Termination, Liability, Privacy or Modification they include the
\* tip of the type beside the wording of the risk level, at every risk level
C28_TipAtEveryLevel ==
    Classified =>
        \A recommendations \in {clf.output[1].recommendations} :
            /\ Len(recommendations) <= 3
            /\ \E k \in 1..Len(recommendations) :
                   recommendations[k] = LevelWording(clf.output[1].risk_level)
            /\ TypeTip(clf.output[1].clause_type) # "" =>
                   \E k \in 1..Len(recommendations) :
                       recommendations[k] = TypeTip(clf.output[1].clause_type)

\* the section marker of highest priority that the response contains
SectionMarker(analysis) ==
    IF Contains(analysis, "Conclusión") THEN "Conclusión"
    ELSE IF Contains(analysis, "Recomendaciones") THEN "Recomendaciones"
    ELSE None

\* C29: the result of a session splits the final response at the first
\* occurrence of the section marker of highest priority it contains
\* ("Conclusión", then "Recomendaciones"): llm_reasoning is the text before
\* it, recommendations the whole text from it on, and the two together are
\* the response; without a marker llm_reasoning is the whole response and
\* recommendations the fixed placeholder
C29_SplitAtFirstMarker ==
    \A s \in DOMAIN sess :
        sess[s].pc = "complete" =>
            \A analysis \in {sess[s].response_full},
               result \in {sess[s].events[Len(sess[s].events)].result} :
                IF SectionMarker(analysis) = None
                THEN /\ result.llm_reasoning = analysis
                     /\ result.recommendations = <<"Ver detalles en el razonamiento.">>
                ELSE /\ result.llm_reasoning =
                            SubSeq(analysis, 1, Find(analysis, SectionMarker(analysis)))
                     /\ result.recommendations =
                            SubSeq(analysis, Find(analysis, SectionMarker(analysis)) + 1,
                                   Len(analysis))
                     /\ result.llm_reasoning \o result.recommendations = analysis

\* the tool turns a session has completed: those whose mcp_done event the
\* caller has taken and resumed from
ToolTurnsCompleted(f) ==
    StatusCount(f, "mcp_done") - (IF f.pc = "mcp_done" THEN 1 ELSE 0)

\* the history of a session is well-formed
WellFormedHistory(f) ==
    /\ f.messages[1] = Message("system", system_prompt)
    /\ f.messages[2].role = "user"
    /\ f.messages[2].content =
           <<"Analiza este documento y detecta infracciones:",
             ToString(IF f.contract_text < 3000 THEN f.contract_text ELSE 3000), "...">>
    /\ \A k \in 3..Len(f.messages) :
           f.messages[k].role = IF k % 2 = 1 THEN "assistant" ELSE "user"
    /\ Len(f.messages) = 2 + 2 * ToolTurnsCompleted(f)
    /\ Len(f.messages) <= 8

C30_HistoryState ==
    \A s \in DOMAIN sess :
        /\ sess[s].messages # <<>> => WellFormedHistory(sess[s])
        /\ sess[s].messages = <<>> =>
               /\ sess[s].pc \in {"start", "extracting", "raised"}
               /\ ToolTurnsCompleted(sess[s]) = 0

C30_HistoryStep ==
    \A s \in DOMAIN sess :
        /\ Len(sess'[s].messages) >= Len(sess[s].messages)
        /\ SubSeq(sess'[s].messages, 1, Len(sess[s].messages)) = sess[s].messages

(***************************************************************************)
(* C30. In every reachable state of a session the history is append-only   *)
(* and well-formed: once the session has read its document, entry 1 is the *)
(* system prompt, entry 2 the user turn with the prefix of the document    *)
(* (at most 3000 characters of it), the entries after them alternate       *)
(* assistant, user, and the length is 2 + 2 x (tool turns completed),      *)
(* hence at most 8; no step removes or changes an entry.                   *)
(***************************************************************************)
C30_HistoryAppendOnlyWellFormed == [](C30_HistoryState) /\ [][C30_HistoryStep]_vars

\* a session on a document of more than 3000 characters has completed
\* three tool turns and its history has 8 entries
C30_Witness ==
    \E s \in DOMAIN sess :
        /\ sess[s].contract_text > 3000
        /\ ToolTurnsCompleted(sess[s]) = 3
        /\ Len(sess[s].messages) = 8
        /\ sess[s].messages[7].role = "assistant"
        /\ sess[s].messages[8].role = "user"

====
